---- MODULE Spec2Model ----
(***************************************************************************)
(* A model of the type lattice of the analyzer: the type combiner          *)
(* (src/src/ttype/type_combiner.rs) and the positive simple assertion      *)
(* reconciler (src/src/analyzer/reconciler/simple_assertion_reconciler.rs).*)
(***************************************************************************)
EXTENDS Integers, Sequences, FiniteSets, TLC

(***************************************************************************)
(* Atomic types.  Every atomic is a record of the same shape, so that any  *)
(* two atomics can be compared: tag is the variant of TAtomic, name the    *)
(* class / enum name or the value of a literal string, num the value of a  *)
(* literal int or the member of an enum case, flags the variant's boolean  *)
(* fields, params the variant's type parameters (unions).                  *)
(***************************************************************************)
NoFlags == <<FALSE, FALSE, FALSE, FALSE>>

Atom(tag, name, num, flags, params) ==
    [tag |-> tag, name |-> name, num |-> num, flags |-> flags, params |-> params]

Simple(tag) == Atom(tag, "", 0, NoFlags, <<>>)

TMixed == Simple("mixed")
TMixedAny == Simple("mixed_any")
TMixedFromLoopIsset == Simple("mixed_from_loop_isset")
TNonnullMixed == Simple("nonnull_mixed")
TTruthyMixed == Simple("truthy_mixed")
TFalsyMixed == Simple("falsy_mixed")
TInt == Simple("int")
TFloat == Simple("float")
TString == Simple("string")
TBool == Simple("bool")
TTrue == Simple("true")
TFalse == Simple("false")
TNull == Simple("null")
TNothing == Simple("nothing")
TVoid == Simple("void")
TArraykey == Simple("arraykey")
TNum == Simple("num")
TScalar == Simple("scalar")
TObject == Simple("object")
TLiteralInt(v) == Atom("literal_int", "", v, NoFlags, <<>>)
TLiteralString(s) == Atom("literal_string", s, 0, NoFlags, <<>>)
TStringWithFlags(t, ne, lit) == Atom("string_with_flags", "", 0, <<t, ne, lit, FALSE>>, <<>>)
TNamedObject(n) == Atom("named_object", n, 0, NoFlags, <<>>)
TEnum(n) == Atom("enum", n, 0, NoFlags, <<>>)
TEnumLiteralCase(n, m) == Atom("enum_case", n, m, NoFlags, <<>>)

\* Containers.  flags[1] is non_empty; params holds the type parameters, unions
\* written as sets of atomics.  A dict with known_items carries them as a third
\* entry of params, a map from the item's key to [pu, type] (possibly_undefined and
\* the item's union), the empty map for None; name is its shape_name, "" for None.  A named object with
\* type_params has them in params.
TVec(type_param, non_empty) ==
    Atom("vec", "", 0, <<non_empty, FALSE, FALSE, FALSE>>, <<type_param>>)
TDict(key_param, value_param, non_empty) ==
    Atom("dict", "", 0, <<non_empty, FALSE, FALSE, FALSE>>, <<key_param, value_param>>)
TShape(key_param, value_param, known_items, non_empty, shape_name) ==
    Atom("dict", shape_name, 0, <<non_empty, FALSE, FALSE, FALSE>>,
         <<key_param, value_param, known_items>>)
TKeyset(type_param) == Atom("keyset", "", 0, NoFlags, <<type_param>>)
TGenericObject(n, type_params) == Atom("named_object", n, 0, NoFlags, type_params)
\* DictKey::String and DictKey::Int
DictKeyString(str) == [kind |-> "String", s |-> str, i |-> 0]
DictKeyInt(n) == [kind |-> "Int", s |-> "", i |-> n]
Item(pu, type) == [pu |-> pu, type |-> type]
HasKnownItems(a) == Len(a.params) = 3 /\ DOMAIN a.params[3] # {}
KnownItems(a) == a.params[3]
Container == "HH\\Container"
KeyedContainer == "HH\\KeyedContainer"

MixedFamilyTags ==
    {"mixed", "mixed_any", "mixed_from_loop_isset", "nonnull_mixed", "truthy_mixed",
     "falsy_mixed"}

\* TAtomic::is_mixed
IsMixedAtomic(a) == a.tag \in MixedFamilyTags

\* TAtomic::get_key / get_combiner_key: the canonical key of an atomic.
\* A named object with type parameters has the key name<k1, k2>, each k the id of
\* a parameter's union: the keys of its atomics joined by "|".
RECURSIVE UnionId(_)
UnionId(u) ==
    IF u = {} THEN ""
    ELSE LET x == CHOOSE y \in u : TRUE
             rest == u \ {x}
         IN  IF rest = {} THEN x.tag ELSE x.tag \o "|" \o UnionId(rest)

RECURSIVE ParamsId(_)
ParamsId(ps) ==
    IF Len(ps) = 1 THEN UnionId(ps[1]) ELSE UnionId(ps[1]) \o ", " \o ParamsId(Tail(ps))

GetKey(a) ==
    CASE a.tag = "named_object" /\ a.params # <<>> ->
             a.name \o "<" \o ParamsId(a.params) \o ">"
      [] a.tag \in {"named_object", "enum"} -> a.name
      [] a.tag = "string_with_flags" -> "string"
      [] a.tag = "mixed_from_loop_isset" -> "mixed"
      [] OTHER -> a.tag

(***************************************************************************)
(* The codebase: class A, class B extends A, interface I, class C          *)
(* implements I, interface J extends I, enum E.  "X" is a name the         *)
(* codebase does not know.                                                 *)
(***************************************************************************)
Classes == {"A", "B", "C"}
Interfaces == {"I", "J"}
Enums == {"E"}

ParentClasses(n) == IF n = "B" THEN {"A"} ELSE {}
ClassInterfaces(n) == IF n = "C" THEN {"I"} ELSE {}
ParentInterfaces(n) == IF n = "J" THEN {"I"} ELSE {}

class_exists(n) == n \in Classes
class_or_interface_or_enum_exists(n) == n \in Classes \cup Interfaces \cup Enums
class_extends(a, b) == b \in ParentClasses(a)
class_implements(a, b) == b \in ClassInterfaces(a)
class_extends_or_implements(a, b) == class_extends(a, b) \/ class_implements(a, b)
interface_extends(a, b) == b \in ParentInterfaces(a)

(***************************************************************************)
(* Maps with a growing domain, and options.                                *)
(***************************************************************************)
EmptyMap == [k \in {} |-> TNothing]
Put(f, k, v) == [y \in (DOMAIN f) \cup {k} |-> IF y = k THEN v ELSE f[y]]
Del(f, k) == [y \in (DOMAIN f) \ {k} |-> f[y]]
DelAll(f, ks) == [y \in (DOMAIN f) \ ks |-> f[y]]
Has(f, k) == k \in DOMAIN f
Values(f) == {f[k] : k \in DOMAIN f}

NoneRet == [some |-> FALSE, v |-> {}]
SomeRet(s) == [some |-> TRUE, v |-> s]

(***************************************************************************)
(* TypeCombination::new(): the accumulator threaded through combine.       *)
(* mixed_from_loop_isset is an Option<bool>: "none", "true" or "false".    *)
(* literal_strings and literal_ints are maps keyed by the literal's key,   *)
(* which determines the literal: they are kept as sets of atomics.         *)
(* dict_type_params, vec_type_param, keyset_type_param and dict_name are   *)
(* options; dict_entries maps an item's key to [pu, type];                 *)
(* object_type_params maps a key to [name, params].  vec_counts,           *)
(* object_static and class_string_types are left out: no atomic of the     *)
(* model has a known_count, is_this or a class string.                     *)
(***************************************************************************)
NewCombination ==
    [value_types |-> EmptyMap,
     named_object_types |-> EmptyMap,
     enum_types |-> {},
     enum_value_types |-> [k \in {} |-> {}],
     literal_strings |-> {},
     literal_ints |-> {},
     has_object_top_type |-> FALSE,
     falsy_mixed |-> FALSE,
     truthy_mixed |-> FALSE,
     nonnull_mixed |-> FALSE,
     any_mixed |-> FALSE,
     vanilla_mixed |-> FALSE,
     mixed_from_loop_isset |-> "none",
     dict_type_params |-> NoneRet,
     dict_entries |-> EmptyMap,
     dict_always_filled |-> TRUE,
     dict_sometimes_filled |-> FALSE,
     dict_name |-> NoneRet,
     vec_type_param |-> NoneRet,
     vec_entries |-> EmptyMap,
     vec_always_filled |-> TRUE,
     vec_sometimes_filled |-> FALSE,
     keyset_type_param |-> NoneRet,
     object_type_params |-> EmptyMap]

Ret(c, r) == [comb |-> c, ret |-> r]
Continue(c) == Ret(c, NoneRet)

(***************************************************************************)
(* scrape_type_properties, the mixed family (lines 251-308).               *)
(***************************************************************************)
ScrapeMixedFamily(atomic, c) ==
    IF atomic.tag \in {"mixed", "mixed_any"} THEN
        Continue([c EXCEPT !.falsy_mixed = FALSE,
                           !.truthy_mixed = FALSE,
                           !.mixed_from_loop_isset = "false",
                           !.vanilla_mixed = TRUE,
                           !.any_mixed = IF atomic.tag = "mixed_any" THEN TRUE ELSE @])
    ELSE IF atomic.tag = "mixed_from_loop_isset" THEN
        IF c.vanilla_mixed \/ c.any_mixed THEN Continue(c)
        ELSE Continue([c EXCEPT
                 !.mixed_from_loop_isset = IF @ = "none" THEN "true" ELSE @,
                 !.value_types = Put(@, "mixed", atomic)])
    ELSE IF atomic.tag \in {"truthy_mixed", "falsy_mixed"} THEN
        IF c.vanilla_mixed \/ c.any_mixed THEN Continue(c)
        ELSE IF atomic.tag = "truthy_mixed" THEN
            LET c1 == [c EXCEPT !.mixed_from_loop_isset = "false", !.truthy_mixed = TRUE]
            IN  IF c1.falsy_mixed THEN Ret(c1, SomeRet({TMixed})) ELSE Continue(c1)
        ELSE
            LET c1 == [c EXCEPT !.mixed_from_loop_isset = "false", !.falsy_mixed = TRUE]
            IN  IF c1.truthy_mixed THEN Ret(c1, SomeRet({TMixed})) ELSE Continue(c1)
    ELSE \* nonnull_mixed
        IF c.vanilla_mixed \/ c.any_mixed THEN Continue(c)
        ELSE IF c.falsy_mixed THEN Ret(c, SomeRet({TMixed}))
        ELSE Continue([c EXCEPT !.mixed_from_loop_isset = "false", !.nonnull_mixed = TRUE])

(***************************************************************************)
(* scrape_type_properties, named objects without type parameters           *)
(* (lines 797-874).  The loop over named_object_types changes nothing      *)
(* before it ends, so its early return does not depend on the order of     *)
(* iteration.                                                              *)
(***************************************************************************)
\* RemovedBy without the removal of the subclasses that are already there
RemovedBy_Never(existing_name, fq_class_name) == FALSE

RemovedBy(existing_name, fq_class_name) ==
    IF class_exists(existing_name)
    THEN class_extends_or_implements(existing_name, fq_class_name)
    ELSE interface_extends(existing_name, fq_class_name)

CoveredBy(fq_class_name, existing_name, is_class) ==
    IF class_exists(existing_name)
    THEN is_class /\ class_extends(fq_class_name, existing_name)
    ELSE IF is_class
         THEN class_implements(fq_class_name, existing_name)
         ELSE interface_extends(fq_class_name, existing_name)

ScrapeNamedObject(atomic, c, type_key, codebase) ==
    IF c.has_object_top_type \/ Has(c.named_object_types, type_key) THEN Continue(c)
    ELSE IF ~codebase THEN
        Continue([c EXCEPT !.named_object_types = Put(@, type_key, atomic)])
    ELSE IF ~class_or_interface_or_enum_exists(type_key) THEN
        Continue([c EXCEPT !.value_types = Put(@, type_key, atomic)])
    ELSE
        LET is_class == class_exists(type_key)
            names == {c.named_object_types[k].name : k \in DOMAIN c.named_object_types}
            types_to_remove == {n \in names : RemovedBy(n, atomic.name)}
            covered == \E n \in names \ types_to_remove : CoveredBy(atomic.name, n, is_class)
        IN  IF covered THEN Continue(c)
            ELSE Continue([c EXCEPT !.named_object_types =
                                        DelAll(Put(@, type_key, atomic), types_to_remove)])

(***************************************************************************)
(* scrape_type_properties, enums (lines 772-795).                          *)
(***************************************************************************)
ScrapeEnumLiteralCase(atomic, c) ==
    IF atomic.name \in c.enum_types THEN Continue(c)
    ELSE LET old == IF Has(c.enum_value_types, atomic.name)
                    THEN c.enum_value_types[atomic.name] ELSE {}
         IN  Continue([c EXCEPT !.enum_value_types =
                                    Put(@, atomic.name, old \cup {atomic.num})])

ScrapeEnum(atomic, c) ==
    Continue([c EXCEPT !.enum_value_types = Del(@, atomic.name),
                       !.enum_types = @ \cup {atomic.name}])

(***************************************************************************)
(* scrape_type_properties, scalars (lines 876-945).                        *)
(***************************************************************************)
ScrapeScalar(atomic, c, type_key) ==
    Continue([c EXCEPT
        !.literal_strings = {},
        !.literal_ints = {},
        !.value_types =
            Put(DelAll(@, {"string", "int", "bool", "false", "true", "float", "arraykey",
                           "num", "numeric"}), type_key, atomic)])

\* ScrapeArraykey that leaves an int that is already there
ScrapeArraykey_KeepsInt(atomic, c, type_key) ==
    IF Has(c.value_types, "scalar") THEN Continue(c)
    ELSE Continue([c EXCEPT
             !.literal_strings = {},
             !.literal_ints = {},
             !.value_types = Put(DelAll(@, {"string"}), type_key, atomic)])

ScrapeArraykey(atomic, c, type_key) ==
    IF Has(c.value_types, "scalar") THEN Continue(c)
    ELSE Continue([c EXCEPT
             !.literal_strings = {},
             !.literal_ints = {},
             !.value_types = Put(DelAll(@, {"string", "int"}), type_key, atomic)])

ScrapeNum(atomic, c, type_key) ==
    IF Has(c.value_types, "scalar") THEN Continue(c)
    ELSE Continue([c EXCEPT
             !.literal_ints = {},
             !.value_types = Put(DelAll(@, {"int", "float"}), type_key, atomic)])

\* lines 920-939: a string or an int is covered by arraykey / num / scalar
CoveredByLadder(atomic, c) ==
    \/ /\ atomic.tag \in {"string", "literal_string", "string_with_flags", "int",
                          "literal_int"}
       /\ (Has(c.value_types, "arraykey") \/ Has(c.value_types, "scalar"))
    \/ /\ atomic.tag \in {"float", "int", "literal_int"}
       /\ (Has(c.value_types, "num") \/ Has(c.value_types, "scalar"))

(***************************************************************************)
(* scrape_type_properties, strings (lines 941-1037).                       *)
(***************************************************************************)
LiteralLimit == 20

ScrapeStringWithFlags(atomic, c) ==
    LET is_truthy == atomic.flags[1]
        is_nonempty == atomic.flags[2]
        is_nonspecific_literal == atomic.flags[3]
    IN
    IF Has(c.value_types, "string") THEN
        LET existing == c.value_types["string"] IN
        IF existing.tag = "string" THEN Continue(c)
        ELSE IF existing.tag = "string_with_flags" THEN
            IF existing.flags[1] = is_truthy /\ existing.flags[2] = is_nonempty
               /\ existing.flags[3] = is_nonspecific_literal
            THEN Continue(c)
            ELSE Continue([c EXCEPT !.value_types["string"] =
                     TStringWithFlags(existing.flags[1] /\ is_truthy,
                                      existing.flags[2] /\ is_nonempty,
                                      existing.flags[3] /\ is_nonspecific_literal)])
        ELSE Continue(c)
    ELSE
        LET has_empty == \E l \in c.literal_strings : l.name = ""
            has_zero == \E l \in c.literal_strings : l.name = "0"
            scan == is_truthy \/ is_nonempty
            truthy == is_truthy /\ ~(scan /\ (has_empty \/ has_zero))
            nonempty == is_nonempty /\ ~(scan /\ has_empty)
        IN  Continue([c EXCEPT
                !.value_types =
                    Put(@, "string",
                        IF ~truthy /\ ~nonempty /\ ~is_nonspecific_literal
                        THEN TString
                        ELSE TStringWithFlags(truthy, nonempty, is_nonspecific_literal)),
                !.literal_strings = {}])

ScrapeLiteralString(atomic, c) ==
    IF Has(c.value_types, "string") THEN
        LET existing == c.value_types["string"] IN
        IF existing.tag = "string_with_flags" THEN
            LET truthy == existing.flags[1] /\ atomic.name \notin {"", "0"}
                nonempty == existing.flags[2] /\ atomic.name # ""
            IN  Continue([c EXCEPT !.value_types["string"] =
                    IF ~truthy /\ ~nonempty /\ ~existing.flags[3]
                    THEN TString
                    ELSE TStringWithFlags(truthy, nonempty, existing.flags[3])])
        ELSE Continue(c)
    ELSE IF Cardinality(c.literal_strings) > LiteralLimit THEN
        Continue([c EXCEPT !.literal_strings = {},
                           !.value_types = Put(@, "string",
                                               TStringWithFlags(TRUE, FALSE, TRUE))])
    ELSE Continue([c EXCEPT !.literal_strings = @ \cup {atomic}])

(***************************************************************************)
(* scrape_type_properties, ints (lines 1039-1060).                         *)
(***************************************************************************)
\* ScrapeLiteralInt that collapses one literal earlier
ScrapeLiteralInt_AtLimit(atomic, c) ==
    IF Has(c.value_types, "int") THEN Continue(c)
    ELSE IF Cardinality(c.literal_ints) >= LiteralLimit THEN
        Continue([c EXCEPT !.literal_ints = {}, !.value_types = Put(@, "int", TInt)])
    ELSE Continue([c EXCEPT !.literal_ints = @ \cup {atomic}])

ScrapeLiteralInt(atomic, c) ==
    IF Has(c.value_types, "int") THEN Continue(c)
    ELSE IF Cardinality(c.literal_ints) > LiteralLimit THEN
        Continue([c EXCEPT !.literal_ints = {}, !.value_types = Put(@, "int", TInt)])
    ELSE Continue([c EXCEPT !.literal_ints = @ \cup {atomic}])

(***************************************************************************)
(* scrape_type_properties, the containers (lines 343-770).                 *)
(* combine_union_types combines the atomics of two unions with combine.    *)
(***************************************************************************)
RECURSIVE combine_union_types(_, _, _, _)

\* lines 352-434; no vec of the model has known_items, so lines 376-428 reduce to
\* the else branch of lines 429-433
ScrapeVec(atomic, c, codebase, overwrite_empty_array) ==
    LET type_param == atomic.params[1]
        non_empty == atomic.flags[1]
        vec_type_param ==
            IF c.vec_type_param.some
            THEN combine_union_types(c.vec_type_param.v, type_param, codebase,
                                     overwrite_empty_array)
            ELSE type_param
        vec_entries ==
            IF overwrite_empty_array THEN c.vec_entries
            ELSE [k \in DOMAIN c.vec_entries |-> Item(TRUE, c.vec_entries[k].type)]
    IN  Continue([c EXCEPT !.vec_type_param = SomeRet(vec_type_param),
                           !.vec_sometimes_filled = @ \/ non_empty,
                           !.vec_always_filled = @ /\ non_empty,
                           !.vec_entries = vec_entries])

\* lines 437-451
ScrapeKeyset(atomic, c, codebase, overwrite_empty_array) ==
    LET type_param == atomic.params[1]
    IN  Continue([c EXCEPT !.keyset_type_param =
            IF @.some
            THEN SomeRet(combine_union_types(@.v, type_param, codebase, overwrite_empty_array))
            ELSE SomeRet(type_param)])

\* lines 489-499
DictName(dict_name, shape_name) ==
    IF shape_name # ""
    THEN IF dict_name.some
         THEN IF dict_name.v # shape_name THEN SomeRet("") ELSE dict_name
         ELSE SomeRet(shape_name)
    ELSE SomeRet("")

\* the entries that state an item known to both sides as defined whenever the
\* candidate defines it
DictEntries_CandidateDecides(dict_entries, known_items, has_existing_entries, codebase, overwrite_empty_array) ==
    [k \in (DOMAIN dict_entries) \cup (DOMAIN known_items) |->
        IF k \in DOMAIN known_items
        THEN IF k \in DOMAIN dict_entries
             THEN Item(known_items[k].pu,
                       IF known_items[k].type # dict_entries[k].type
                       THEN combine_union_types(dict_entries[k].type, known_items[k].type,
                                                codebase, overwrite_empty_array)
                       ELSE dict_entries[k].type)
             ELSE Item(has_existing_entries \/ known_items[k].pu, known_items[k].type)
        ELSE Item(TRUE, dict_entries[k].type)]

\* lines 502-554: the entries after the known_items of one more dict
DictEntries(dict_entries, known_items, has_existing_entries, codebase, overwrite_empty_array) ==
    [k \in (DOMAIN dict_entries) \cup (DOMAIN known_items) |->
        IF k \in DOMAIN known_items
        THEN IF k \in DOMAIN dict_entries
             THEN Item(dict_entries[k].pu \/ known_items[k].pu,
                       IF known_items[k].type # dict_entries[k].type
                       THEN combine_union_types(dict_entries[k].type, known_items[k].type,
                                                codebase, overwrite_empty_array)
                       ELSE dict_entries[k].type)
             ELSE Item(has_existing_entries \/ known_items[k].pu, known_items[k].type)
        ELSE Item(TRUE, dict_entries[k].type)]

\* lines 453-563
ScrapeDict(atomic, c, codebase, overwrite_empty_array) ==
    LET key_param == atomic.params[1]
        value_param == atomic.params[2]
        non_empty == atomic.flags[1]
        had_previous_dict == c.dict_type_params.some
        dict_type_params ==
            IF had_previous_dict
            THEN <<combine_union_types(c.dict_type_params.v[1], key_param, codebase,
                                       overwrite_empty_array),
                   combine_union_types(c.dict_type_params.v[2], value_param, codebase,
                                       overwrite_empty_array)>>
            ELSE <<key_param, value_param>>
        Entries(c1) ==
            IF HasKnownItems(atomic)
            THEN LET known_items == KnownItems(atomic)
                     has_existing_entries == DOMAIN c.dict_entries # {} \/ had_previous_dict
                     has_defined_keys == \E k \in DOMAIN known_items : ~known_items[k].pu
                 IN  Continue([c1 EXCEPT
                         !.dict_entries = DictEntries(@, known_items, has_existing_entries,
                                                      codebase, overwrite_empty_array),
                         !.dict_always_filled = @ /\ has_defined_keys])
            ELSE IF ~overwrite_empty_array
            THEN Continue([c1 EXCEPT !.dict_entries =
                     [k \in DOMAIN @ |-> Item(TRUE, @[k].type)]])
            ELSE Continue(c1)
    IN  Entries([c EXCEPT !.dict_type_params = SomeRet(dict_type_params),
                          !.dict_sometimes_filled = @ \/ non_empty,
                          !.dict_always_filled = @ /\ non_empty,
                          !.dict_name = DictName(@, atomic.name)])

ObjectParams(n, type_params) == [name |-> n, params |-> type_params]

\* lines 593-661: a Container<Bar> takes over the dict, the vec and the
\* KeyedContainer collected so far
AbsorbIntoContainer(c, fq_class_name, codebase) ==
    LET value_of(comb, other) ==
            IF Has(comb.object_type_params, Container)
            THEN combine_union_types(comb.object_type_params[Container].params[1], other,
                                     codebase, FALSE)
            ELSE other
        \* lines 597-616
        FromDict(c0) ==
            IF c0.dict_type_params.some
            THEN [c0 EXCEPT !.object_type_params =
                                Put(@, Container,
                                    ObjectParams(fq_class_name,
                                                 <<value_of(c0, c0.dict_type_params.v[2])>>)),
                            !.dict_type_params = NoneRet]
            ELSE c0
        \* lines 619-638
        FromVec(c1) ==
            IF c1.vec_type_param.some
            THEN [c1 EXCEPT !.object_type_params =
                                Put(@, Container,
                                    ObjectParams(fq_class_name,
                                                 <<value_of(c1, c1.vec_type_param.v)>>)),
                            !.vec_type_param = NoneRet]
            ELSE c1
        \* lines 641-662
        FromKeyedContainer(c2) ==
            IF Has(c2.object_type_params, KeyedContainer)
            THEN [c2 EXCEPT !.object_type_params =
                     Del(Put(@, Container,
                             ObjectParams(fq_class_name,
                                 <<value_of(c2,
                                            c2.object_type_params[KeyedContainer].params[2])>>)),
                         KeyedContainer)]
            ELSE c2
    IN  FromKeyedContainer(FromVec(FromDict(c)))

\* lines 671-702: dict<string, Foo>|KeyedContainer<int, Bar>; without a
\* KeyedContainer collected so far the key is dict_types.1, the value parameter
\* (line 682)
DictIntoKeyedContainer(c, codebase) ==
    LET has_keyed == Has(c.object_type_params, KeyedContainer)
        keyed_container_types == c.object_type_params[KeyedContainer].params
        dict_types == c.dict_type_params.v
        container_key_type ==
            IF has_keyed
            THEN combine_union_types(keyed_container_types[1], dict_types[1], codebase, FALSE)
            ELSE dict_types[2]
        container_value_type ==
            IF has_keyed
            THEN combine_union_types(keyed_container_types[2], dict_types[2], codebase, FALSE)
            ELSE dict_types[2]
    IN  IF c.dict_type_params.some
        THEN [c EXCEPT !.object_type_params =
                           Put(@, KeyedContainer,
                               ObjectParams(KeyedContainer,
                                            <<container_key_type, container_value_type>>)),
                       !.dict_type_params = NoneRet]
        ELSE c

\* lines 704-739: vec<Foo>|KeyedContainer<string, Bar>
VecIntoKeyedContainer(c, codebase) ==
    LET has_keyed == Has(c.object_type_params, KeyedContainer)
        keyed_container_types == c.object_type_params[KeyedContainer].params
        value_param == c.vec_type_param.v
        container_key_type ==
            IF has_keyed
            THEN combine_union_types(keyed_container_types[1], {TInt}, codebase, FALSE)
            ELSE {TInt}
        container_value_type ==
            IF has_keyed
            THEN combine_union_types(keyed_container_types[2], value_param, codebase, FALSE)
            ELSE value_param
    IN  IF c.vec_type_param.some
        THEN [c EXCEPT !.object_type_params =
                           Put(@, KeyedContainer,
                               ObjectParams(KeyedContainer,
                                            <<container_key_type, container_value_type>>)),
                       !.vec_type_param = NoneRet]
        ELSE c

\* lines 742-767: the parameters are combined with those stored under the same key
MergeObjectParams(c, atomic, type_key, codebase, overwrite_empty_array) ==
    LET type_params == atomic.params IN
    IF Has(c.object_type_params, type_key)
    THEN LET existing_type_params == c.object_type_params[type_key].params
             both == {i \in 1..Len(type_params) : i <= Len(existing_type_params)}
             new_type_params ==
                 [i \in 1..Cardinality(both) |->
                     combine_union_types(existing_type_params[i], type_params[i], codebase,
                                         overwrite_empty_array)]
         IN  [c EXCEPT !.object_type_params =
                 Put(@, type_key, ObjectParams(atomic.name, new_type_params))]
    ELSE [c EXCEPT !.object_type_params =
             Put(@, type_key, ObjectParams(atomic.name, type_params))]

\* lines 589-770: a named object with type parameters
ScrapeGenericObject(atomic, c, type_key, codebase, overwrite_empty_array) ==
    LET IntoKeyedContainer(c1) ==
            IF atomic.name = KeyedContainer
            THEN VecIntoKeyedContainer(DictIntoKeyedContainer(c1, codebase), codebase)
            ELSE c1
    IN  Continue(MergeObjectParams(
            IntoKeyedContainer(IF atomic.name = Container
                               THEN AbsorbIntoContainer(c, atomic.name, codebase)
                               ELSE c),
            atomic, type_key, codebase, overwrite_empty_array))

(***************************************************************************)
(* scrape_type_properties (lines 245-1065): absorbs one atomic into the    *)
(* combination; ret is the early result of combine, if any.                *)
(***************************************************************************)
ScrapeTypeProperties(atomic, c, codebase, overwrite_empty_array) ==
    IF IsMixedAtomic(atomic) THEN ScrapeMixedFamily(atomic, c)
    ELSE IF atomic.tag \in {"false", "true"} /\ Has(c.value_types, "bool") THEN Continue(c)
    ELSE
        LET c1 == IF atomic.tag = "bool"
                  THEN [c EXCEPT !.value_types = DelAll(@, {"false", "true"})]
                  ELSE c
            type_key == GetKey(atomic)
        IN  CASE atomic.tag = "vec" ->
                   ScrapeVec(atomic, c1, codebase, overwrite_empty_array)
              [] atomic.tag = "keyset" ->
                   ScrapeKeyset(atomic, c1, codebase, overwrite_empty_array)
              [] atomic.tag = "dict" ->
                   ScrapeDict(atomic, c1, codebase, overwrite_empty_array)
              [] atomic.tag = "object" ->
                   Continue([c1 EXCEPT !.has_object_top_type = TRUE,
                                       !.value_types = Put(@, type_key, atomic),
                                       !.named_object_types = EmptyMap])
              [] atomic.tag = "enum_case" -> ScrapeEnumLiteralCase(atomic, c1)
              [] atomic.tag = "enum" -> ScrapeEnum(atomic, c1)
              [] atomic.tag = "named_object" /\ atomic.params # <<>> ->
                   ScrapeGenericObject(atomic, c1, type_key, codebase,
                                       overwrite_empty_array)
              [] atomic.tag = "named_object" ->
                   ScrapeNamedObject(atomic, c1, type_key, codebase)
              [] atomic.tag = "scalar" -> ScrapeScalar(atomic, c1, type_key)
              [] atomic.tag = "arraykey" -> ScrapeArraykey(atomic, c1, type_key)
              [] atomic.tag = "num" -> ScrapeNum(atomic, c1, type_key)
              [] OTHER ->
                   IF CoveredByLadder(atomic, c1) THEN Continue(c1)
                   ELSE CASE atomic.tag = "string" ->
                               Continue([c1 EXCEPT !.literal_strings = {},
                                                   !.value_types = Put(@, type_key, atomic)])
                          [] atomic.tag = "string_with_flags" ->
                               ScrapeStringWithFlags(atomic, c1)
                          [] atomic.tag = "literal_string" -> ScrapeLiteralString(atomic, c1)
                          [] atomic.tag = "int" ->
                               Continue([c1 EXCEPT !.literal_ints = {},
                                                   !.value_types = Put(@, type_key, atomic)])
                          [] atomic.tag = "literal_int" -> ScrapeLiteralInt(atomic, c1)
                          [] OTHER ->
                               Continue([c1 EXCEPT !.value_types = Put(@, type_key, atomic)])

(***************************************************************************)
(* combine, after the loop (lines 31-243).  A result is the returned list  *)
(* as a set of atomics (its order is the iteration order of hash maps), or *)
(* the panic of line 235.                                                  *)
(***************************************************************************)
Returned(s) == [panic |-> FALSE, types |-> s]
Panicked == [panic |-> TRUE, types |-> {}]

\* MixedResult without its last branch
MixedResult_NoVanilla(c) ==
    IF c.nonnull_mixed /\ Has(c.value_types, "null") THEN SomeRet({TMixed})
    ELSE IF c.falsy_mixed THEN
        IF DOMAIN c.value_types # {} THEN SomeRet({TMixed}) ELSE SomeRet({TFalsyMixed})
    ELSE IF c.truthy_mixed THEN
        IF DOMAIN c.value_types # {} THEN SomeRet({TMixed}) ELSE SomeRet({TTruthyMixed})
    ELSE IF c.nonnull_mixed THEN SomeRet({TNonnullMixed})
    ELSE IF c.any_mixed THEN SomeRet({TMixedAny})
    ELSE NoneRet

\* MixedResult with its last two branches the other way round
MixedResult_VanillaFirst(c) ==
    IF c.nonnull_mixed /\ Has(c.value_types, "null") THEN SomeRet({TMixed})
    ELSE IF c.falsy_mixed THEN
        IF DOMAIN c.value_types # {} THEN SomeRet({TMixed}) ELSE SomeRet({TFalsyMixed})
    ELSE IF c.truthy_mixed THEN
        IF DOMAIN c.value_types # {} THEN SomeRet({TMixed}) ELSE SomeRet({TTruthyMixed})
    ELSE IF c.nonnull_mixed THEN SomeRet({TNonnullMixed})
    ELSE IF c.vanilla_mixed THEN SomeRet({TMixed})
    ELSE IF c.any_mixed THEN SomeRet({TMixedAny})
    ELSE NoneRet

\* lines 31-51: the mixed flags decide the result; none |-> FALSE if no flag is set
MixedResult(c) ==
    IF c.nonnull_mixed /\ Has(c.value_types, "null") THEN SomeRet({TMixed})
    ELSE IF c.falsy_mixed THEN
        IF DOMAIN c.value_types # {} THEN SomeRet({TMixed}) ELSE SomeRet({TFalsyMixed})
    ELSE IF c.truthy_mixed THEN
        IF DOMAIN c.value_types # {} THEN SomeRet({TMixed}) ELSE SomeRet({TTruthyMixed})
    ELSE IF c.nonnull_mixed THEN SomeRet({TNonnullMixed})
    ELSE IF c.any_mixed THEN SomeRet({TMixedAny})
    ELSE IF c.vanilla_mixed THEN SomeRet({TMixed})
    ELSE NoneRet

\* lines 53-80: a single value type and nothing else
IsSingleValue(c) ==
    /\ Cardinality(DOMAIN c.value_types) = 1
    /\ DOMAIN c.dict_entries = {}
    /\ DOMAIN c.vec_entries = {}
    /\ ~c.dict_type_params.some
    /\ ~c.vec_type_param.some
    /\ ~c.keyset_type_param.some
    /\ DOMAIN c.object_type_params = {}
    /\ DOMAIN c.named_object_types = {}
    /\ c.enum_types = {}
    /\ DOMAIN c.enum_value_types = {}
    /\ c.literal_strings = {}
    /\ c.literal_ints = {}

\* lines 82-90: void is dropped (the insert of null over null changes nothing)
DropVoid(vt) == IF Has(vt, "void") THEN Del(vt, "void") ELSE vt

\* lines 92-99: true and false become bool, stored under the key "null"
UnifyBool(vt) ==
    IF Has(vt, "false") /\ Has(vt, "true")
    THEN Put(DelAll(vt, {"false", "true"}), "null", TBool)
    ELSE vt

\* lines 176-186: string, float, int and bool together become scalar
ScalarKeys == {"string", "float", "int", "bool"}
CollapseScalar(vt) == IF ScalarKeys \subseteq DOMAIN vt THEN DelAll(vt, ScalarKeys) ELSE vt
HasScalarCollapse(vt) == ScalarKeys \subseteq DOMAIN vt

\* lines 198-208: every case of an enum is inserted under the enum's name, so the
\* case iterated last is the one that stays; hash_desc fixes the iteration order.
LastCase(members, hash_desc) ==
    IF hash_desc
    THEN CHOOSE m \in members : \A n \in members : m <= n
    ELSE CHOOSE m \in members : \A n \in members : m >= n

WithEnums(vt, c, hash_desc) ==
    LET enum_keys == c.enum_types
        case_keys == {e \in DOMAIN c.enum_value_types : c.enum_value_types[e] # {}}
    IN  [k \in (DOMAIN vt) \cup enum_keys \cup case_keys |->
            IF k \in case_keys
            THEN TEnumLiteralCase(k, LastCase(c.enum_value_types[k], hash_desc))
            ELSE IF k \in enum_keys THEN TEnum(k)
            ELSE vt[k]]

\* lines 188-190: HashMap::extend, the named objects replace equal keys
Extend(vt, named) ==
    [k \in (DOMAIN vt) \cup (DOMAIN named) |-> IF k \in DOMAIN named THEN named[k] ELSE vt[k]]

\* lines 210-232: the value types are appended, but for nothing and a mixed from a
\* loop isset when other types are present
KeptValueTypes(vt, new_types, mixed_from_loop_isset) ==
    LET has_nothing == Has(vt, "nothing")
        tc == IF has_nothing THEN 1 ELSE 0
        count == Cardinality(DOMAIN vt)
        n == Cardinality(new_types)
    IN  {vt[k] : k \in {k \in DOMAIN vt :
            /\ ~(/\ IsMixedAtomic(vt[k])
                 /\ mixed_from_loop_isset = "true"
                 /\ (count > tc + 1 \/ n > tc))
            /\ ~(vt[k].tag = "nothing" /\ (count > 1 \/ n > 0))}}

\* lines 102-159: the containers of the result
ContainerTypes(c) ==
    (IF c.dict_type_params.some
     THEN {IF DOMAIN c.dict_entries = {} /\ (~c.dict_name.some \/ c.dict_name.v = "")
           THEN TDict(c.dict_type_params.v[1], c.dict_type_params.v[2],
                      c.dict_always_filled)
           ELSE TShape(c.dict_type_params.v[1], c.dict_type_params.v[2], c.dict_entries,
                       c.dict_always_filled,
                       IF c.dict_name.some THEN c.dict_name.v ELSE "")}
     ELSE {})
    \cup (IF c.vec_type_param.some
          THEN {TVec(c.vec_type_param.v, c.vec_always_filled)}
          ELSE {})
    \cup (IF c.keyset_type_param.some THEN {TKeyset(c.keyset_type_param.v)} ELSE {})
    \cup {TGenericObject(c.object_type_params[k].name, c.object_type_params[k].params) :
             k \in DOMAIN c.object_type_params}

Finalize(c, hash_desc) ==
    LET mixed == MixedResult(c) IN
    IF mixed.some THEN Returned(mixed.v)
    ELSE IF IsSingleValue(c) THEN
        IF Has(c.value_types, "false") THEN Returned({TFalse})
        ELSE IF Has(c.value_types, "true") THEN Returned({TTrue})
        ELSE Returned(Values(c.value_types))
    ELSE
        LET vt1 == UnifyBool(DropVoid(c.value_types))
            new_types == ContainerTypes(c) \cup c.literal_strings \cup c.literal_ints
                         \cup (IF HasScalarCollapse(vt1) THEN {TScalar} ELSE {})
            vt2 == WithEnums(Extend(CollapseScalar(vt1), c.named_object_types), c, hash_desc)
            has_nothing == Has(vt2, "nothing")
            all == new_types \cup KeptValueTypes(vt2, new_types, c.mixed_from_loop_isset)
        IN  IF all = {} /\ ~has_nothing THEN Panicked
            ELSE IF all = {} THEN Returned({TNothing})
            ELSE Returned(all)

(***************************************************************************)
(* combine (lines 11-243).                                                 *)
(***************************************************************************)
RECURSIVE ScrapeAll(_, _, _, _, _)
ScrapeAll(types, i, c, codebase, overwrite_empty_array) ==
    IF i > Len(types) THEN Continue(c)
    ELSE LET Rest(r) ==
                 IF r.ret.some THEN r
                 ELSE ScrapeAll(types, i + 1, r.comb, codebase, overwrite_empty_array)
         IN  Rest(ScrapeTypeProperties(types[i], c, codebase, overwrite_empty_array))

Range(seq) == {seq[i] : i \in 1..Len(seq)}

Combine(types, codebase, overwrite_empty_array, hash_desc) ==
    IF Len(types) = 1 THEN Returned(Range(types))
    ELSE LET AfterLoop(r) ==
                 IF r.ret.some THEN Returned(r.ret.v) ELSE Finalize(r.comb, hash_desc)
         IN  AfterLoop(ScrapeAll(types, 1, NewCombination, codebase, overwrite_empty_array))

(***************************************************************************)
(* The inputs of combine the model explores.                               *)
(***************************************************************************)
MaxLen == 2        \* every list of up to MaxLen atomics of Universe
MaxLits == 23      \* runs of up to MaxLits distinct literals
MaxScalarLen == 5  \* lists without repetition of up to MaxScalarLen scalar atomics
MaxObjLen == 3     \* lists without repetition of up to MaxObjLen object atomics
MaxLadderLen == 3  \* lists without repetition of up to MaxLadderLen ladder atomics
PermMax == 3       \* a returned list of up to PermMax atomics is replayed in every order

MixedFamily ==
    {TMixed, TMixedAny, TMixedFromLoopIsset, TNonnullMixed, TTruthyMixed, TFalsyMixed}

\* The atomics combined here are the mixed family, the scalars, the literals, the
\* objects and the enums.  Vec, dict, keyset and generic objects (lines 343-770 and
\* their part of the result, lines 103-159) are not among them, so the branches of
\* scrape_type_properties that only they reach are not part of ScrapeTypeProperties.
Universe ==
    MixedFamily
    \cup {TInt, TFloat, TString, TBool, TTrue, TFalse, TNull, TNothing, TVoid, TArraykey,
          TNum, TScalar}
    \cup {TLiteralInt(1), TLiteralInt(2), TLiteralString(""), TLiteralString("a"),
          TStringWithFlags(TRUE, TRUE, FALSE)}
    \cup {TObject, TNamedObject("A"), TNamedObject("B")}
    \cup {TEnum("E"), TEnumLiteralCase("E", 1), TEnumLiteralCase("E", 2)}

ScalarAtoms == {TTrue, TFalse, TBool, TString, TInt, TFloat}

LadderAtoms == {TArraykey, TNum, TScalar, TBool, TString, TInt, TFloat}

ObjectAtoms ==
    {TObject, TNamedObject("A"), TNamedObject("B"), TNamedObject("C"), TNamedObject("I"),
     TNamedObject("J"), TNamedObject("X")}

SeqsUpTo(S, n) == UNION {[1..k -> S] : k \in 1..n}

Injective(seq) == \A i, j \in 1..Len(seq) : i # j => seq[i] # seq[j]

Reverse(seq) == [i \in 1..Len(seq) |-> seq[Len(seq) + 1 - i]]

\* the literals lo+1 .. lo+n, ascending
LiteralRun(lo, n) == [i \in 1..n |-> TLiteralInt(lo + i)]

LiteralRuns ==
    LET asc == {LiteralRun(lo, n) : lo \in 0..1, n \in 3..MaxLits}
    IN  asc \cup {Reverse(r) : r \in asc}

Inputs ==
    SeqsUpTo(Universe, MaxLen)
    \cup {q \in SeqsUpTo(ScalarAtoms, MaxScalarLen) : Injective(q)}
    \cup {q \in SeqsUpTo(ObjectAtoms, MaxObjLen) : Injective(q)}
    \cup {q \in SeqsUpTo(LadderAtoms, MaxLadderLen) : Injective(q)}
    \cup LiteralRuns

\* The orders in which a returned list is fed back to combine.
RECURSIVE Orderings(_)
Orderings(S) ==
    IF S = {} THEN {<<>>}
    ELSE UNION {{<<x>> \o q : q \in Orderings(S \ {x})} : x \in S}

RECURSIVE SomeOrder(_)
SomeOrder(S) ==
    IF S = {} THEN <<>>
    ELSE LET x == CHOOSE y \in S : TRUE IN <<x>> \o SomeOrder(S \ {x})

Replays(S) ==
    IF Cardinality(S) <= PermMax THEN Orderings(S)
    ELSE {SomeOrder(S), Reverse(SomeOrder(S))}

(***************************************************************************)
(* combine_union_types: equal unions are returned as they are; otherwise   *)
(* the atomics of the first and then of the second are combined.           *)
(***************************************************************************)
combine_union_types(type_1, type_2, codebase, overwrite_empty_array) ==
    IF type_1 = type_2 THEN type_1
    ELSE Combine(SomeOrder(type_1) \o SomeOrder(type_2), codebase, overwrite_empty_array,
                 FALSE).types

(***************************************************************************)
(* The positive simple assertion reconciler.  Its atomics add the mixed    *)
(* with flags (is_any, is_truthy, is_falsy, is_nonnull), generic           *)
(* parameters (params[1] is as_type), enum cases with an optional          *)
(* constraint type (params is <<>> or <<{constraint}>>), and vec and dict  *)
(* (flags[1] is non_empty).  A union is the set of its atomics.            *)
(***************************************************************************)
TMixedWithFlags(is_any, is_truthy, is_falsy, is_nonnull) ==
    Atom("mixed_with_flags", "", 0, <<is_any, is_truthy, is_falsy, is_nonnull>>, <<>>)
TGenericParam(n, as_type) == Atom("generic_param", n, 0, NoFlags, <<as_type>>)
TConstrainedEnumCase(n, m, constraint) == Atom("enum_case", n, m, NoFlags, <<{constraint}>>)

get_null == {TNull}
get_object == {TObject}
get_arraykey == {TArraykey}
get_num == {TNum}
get_string == {TString}
get_int == {TInt}
get_nothing == {TNothing}
get_mixed_any == {TMixedWithFlags(TRUE, FALSE, FALSE, FALSE)}
get_mixed_maybe_from_loop(inside_loop) ==
    IF inside_loop THEN {TMixedFromLoopIsset} ELSE {TMixed}

ReconcilerMixedTags == {"mixed", "mixed_with_flags", "mixed_from_loop_isset"}

\* TUnion::is_mixed, TUnion::is_nothing, TUnion::has_object_type
UnionIsMixed(u) == Cardinality(u) = 1 /\ \A a \in u : a.tag \in ReconcilerMixedTags
UnionIsNothing(u) == u = {TNothing}
is_object_type(a) == a.tag \in {"object", "named_object"}
UnionHasObjectType(u) == \E a \in u : is_object_type(a)

\* TAtomic::is_int, is_string, is_falsy, is_truthy
is_int(a) == a.tag \in {"int", "literal_int"}
is_string(a) == a.tag \in {"string", "literal_string", "string_with_flags"}

is_falsy(a) ==
    \/ a.tag \in {"false", "null"}
    \/ a.tag = "mixed_with_flags" /\ a.flags[3]
    \/ a.tag = "literal_int" /\ a.num = 0
    \/ a.tag = "literal_string" /\ a.name \in {"", "0"}

is_truthy(a) ==
    \/ a.tag \in {"true", "object", "named_object"}
    \/ a.tag = "mixed_with_flags" /\ a.flags[2]
    \/ a.tag = "string_with_flags" /\ a.flags[1]
    \/ a.tag = "literal_int" /\ a.num # 0
    \/ a.tag = "literal_string" /\ a.name \notin {"", "0"}
    \/ a.tag \in {"vec", "dict"} /\ a.flags[1]

\* TAtomic::replace_template_extends, get_non_empty_vec, make_non_empty_dict
replace_template_extends(a, as_type) == [a EXCEPT !.params = <<as_type>>]
get_non_empty(a) == [a EXCEPT !.flags[1] = TRUE]

\* atomic_type_comparator::is_contained_by, for the atomics of the model without
\* type parameters: a literal is contained by its general type, Nothing by
\* everything, everything by Mixed.
is_contained_by(a, b) ==
    \/ a = b
    \/ a.tag = "nothing"
    \/ b.tag = "mixed"
    \/ b.tag = "mixed_with_flags" /\ ~b.flags[2] /\ ~b.flags[3] /\ ~b.flags[4]
    \/ b.tag = "int" /\ a.tag = "literal_int"
    \/ b.tag = "string" /\ a.tag \in {"literal_string", "string_with_flags"}
    \/ b.tag = "bool" /\ a.tag \in {"true", "false"}
    \/ b.tag = "arraykey" /\ (is_int(a) \/ is_string(a))
    \/ b.tag = "num" /\ (is_int(a) \/ a.tag = "float")
    \/ b.tag = "scalar" /\ (is_int(a) \/ is_string(a)
                            \/ a.tag \in {"float", "bool", "true", "false", "arraykey", "num"})
    \/ b.tag = "object" /\ a.tag = "named_object"
    \/ /\ b.tag = "named_object"
       /\ a.tag = "named_object"
       /\ (class_extends_or_implements(a.name, b.name) \/ interface_extends(a.name, b.name))

\* intersect_union_types: the atomics of either union that the other union
\* contains; None if there is none.
intersect_union_types(type_1, type_2) ==
    LET meet == {a \in type_1 : \E b \in type_2 : is_contained_by(a, b)}
                \cup {b \in type_2 : \E a \in type_1 : is_contained_by(b, a)}
    IN  IF meet = {} THEN NoneRet ELSE SomeRet(meet)

(***************************************************************************)
(* What a reconciliation gives: the narrowed union, the issue passed to    *)
(* trigger_issue_for_impossible ("none" if it is not called, else          *)
(* "redundant" or "impossible" after its argument), and the two facts the  *)
(* call is decided on.                                                     *)
(***************************************************************************)
Outcome(u, issue, acceptable_empty, did_remove_type) ==
    [some |-> TRUE, types |-> u, issue |-> issue,
     acceptable_empty |-> acceptable_empty, did_remove_type |-> did_remove_type]

\* reconcile returns None
NoOutcome ==
    [some |-> FALSE, types |-> {}, issue |-> "none",
     acceptable_empty |-> FALSE, did_remove_type |-> FALSE]

\* if let Some(key) = key { if let Some(pos) = pos { trigger_issue_for_impossible(..) } }
Trigger(cond, redundant, key, pos) ==
    IF cond /\ key /\ pos THEN (IF redundant THEN "redundant" ELSE "impossible") ELSE "none"

\* the common end of the intersect_* functions
Intersected(acceptable_types, did_remove_type, is_equality, key, pos) ==
    Outcome(IF acceptable_types # {} THEN acceptable_types ELSE get_nothing,
            Trigger(acceptable_types = {} \/ (~did_remove_type /\ ~is_equality),
                    ~did_remove_type, key, pos),
            acceptable_types = {}, did_remove_type)

\* an early return of the loop: nothing is reported
Early(u) == Outcome(u, "none", FALSE, TRUE)

\* the bound of a generic parameter
as_type(atomic) == atomic.params[1]

RECURSIVE intersect_null(_, _, _)
intersect_null(existing_var_type, key, pos) ==
    IF UnionIsMixed(existing_var_type) THEN Early(get_null)
    ELSE
    LET pushed(atomic) ==
            CASE atomic.tag = "null" -> {TNull}
              [] \/ atomic.tag = "mixed"
                 \/ atomic.tag = "mixed_with_flags" /\ ~atomic.flags[2] /\ ~atomic.flags[4] ->
                    {TNull}
              [] atomic.tag = "generic_param" ->
                    IF UnionIsMixed(as_type(atomic))
                    THEN {replace_template_extends(atomic, get_null)}
                    ELSE {replace_template_extends(
                            atomic, intersect_null(as_type(atomic), FALSE, FALSE).types)}
              [] atomic.tag = "named_object" /\ atomic.name = "XHPChild" -> {TNull}
              [] OTHER -> {}
        nullable_types == UNION {pushed(atomic) : atomic \in existing_var_type}
        did_remove_type == \E atomic \in existing_var_type : atomic.tag # "null"
    IN  Outcome(IF nullable_types # {} THEN nullable_types ELSE get_nothing,
                Trigger(nullable_types = {} \/ ~did_remove_type, ~did_remove_type, key, pos),
                nullable_types = {}, did_remove_type)

RECURSIVE intersect_object(_, _, _, _)
intersect_object(existing_var_type, key, pos, is_equality) ==
    IF UnionIsMixed(existing_var_type) THEN Early(get_object)
    ELSE
    LET pushed(atomic) ==
            CASE is_object_type(atomic) -> {atomic}
              [] atomic.tag = "generic_param" ->
                    IF UnionIsMixed(as_type(atomic))
                    THEN {replace_template_extends(atomic, get_object)}
                    ELSE IF UnionHasObjectType(as_type(atomic))
                    THEN {replace_template_extends(
                            atomic,
                            intersect_object(as_type(atomic), FALSE, FALSE, is_equality).types)}
                    ELSE {}
              [] OTHER -> {}
        object_types == UNION {pushed(atomic) : atomic \in existing_var_type}
        did_remove_type == \E atomic \in existing_var_type : ~is_object_type(atomic)
    IN  Intersected(object_types, did_remove_type, is_equality, key, pos)

intersect_arraykey(existing_var_type, key, pos, is_equality) ==
    IF UnionIsMixed(existing_var_type) THEN Early(get_arraykey)
    ELSE
    LET accepted(atomic) == is_int(atomic) \/ is_string(atomic) \/ atomic.tag = "arraykey"
    IN  IF \E atomic \in existing_var_type : ~accepted(atomic) /\ atomic.tag = "num"
        THEN Early(get_int)
        ELSE Intersected({atomic \in existing_var_type : accepted(atomic)},
                         \E atomic \in existing_var_type : ~accepted(atomic),
                         is_equality, key, pos)

intersect_num(existing_var_type, key, pos, is_equality) ==
    IF UnionIsMixed(existing_var_type) THEN Early(get_num)
    ELSE
    LET accepted(atomic) == is_int(atomic) \/ atomic.tag = "float"
    IN  IF \E atomic \in existing_var_type : ~accepted(atomic) /\ atomic.tag = "arraykey"
        THEN Early(get_int)
        ELSE Intersected({atomic \in existing_var_type : accepted(atomic)},
                         \E atomic \in existing_var_type : ~accepted(atomic),
                         is_equality, key, pos)

\* an enum case with a constraint type is kept if the constraint is contained
\* by the asserted type
ConstraintContained(atomic, asserted) ==
    \A constraint_type \in atomic.params[1] : is_contained_by(constraint_type, asserted)

RECURSIVE intersect_string(_, _, _, _)
intersect_string(existing_var_type, key, pos, is_equality) ==
    LET returns(atomic) ==
            \/ atomic.tag \in ReconcilerMixedTags \cup {"scalar", "arraykey"}
            \/ atomic.tag = "enum_case" /\ atomic.params = <<>>
        pushed(atomic) ==
            CASE is_string(atomic) -> {atomic}
              [] atomic.tag = "enum_case" ->
                    IF ConstraintContained(atomic, TString) THEN {atomic} ELSE {}
              [] atomic.tag = "generic_param" ->
                    IF UnionIsMixed(as_type(atomic))
                    THEN {replace_template_extends(atomic, get_string)}
                    ELSE {replace_template_extends(
                            atomic,
                            intersect_string(as_type(atomic), FALSE, FALSE, is_equality).types)}
              [] atomic.tag = "named_object" ->
                    IF atomic.name = "XHPChild" THEN {TString} ELSE {}
              [] OTHER -> IF is_contained_by(atomic, TString) THEN {atomic} ELSE {}
        removed(atomic) ==
            CASE is_string(atomic) -> FALSE
              [] atomic.tag = "enum_case" -> ~ConstraintContained(atomic, TString)
              [] atomic.tag \in {"generic_param", "named_object"} -> TRUE
              [] OTHER -> ~is_contained_by(atomic, TString) \/ atomic.tag = "enum"
    IN  IF \E atomic \in existing_var_type : returns(atomic)
        THEN Early(get_string)
        ELSE Intersected(UNION {pushed(atomic) : atomic \in existing_var_type},
                         \E atomic \in existing_var_type : removed(atomic),
                         is_equality, key, pos)

RECURSIVE intersect_int(_, _, _, _)
intersect_int(existing_var_type, key, pos, is_equality) ==
    LET returns(atomic) ==
            \/ atomic.tag \in ReconcilerMixedTags \cup {"scalar", "num", "arraykey"}
            \/ atomic.tag = "enum_case" /\ atomic.params = <<>>
        pushed(atomic) ==
            CASE is_int(atomic) -> {atomic}
              [] atomic.tag = "generic_param" ->
                    IF UnionIsMixed(as_type(atomic))
                    THEN {replace_template_extends(atomic, get_int)}
                    ELSE {replace_template_extends(
                            atomic,
                            intersect_int(as_type(atomic), FALSE, FALSE, is_equality).types)}
              [] atomic.tag = "enum_case" ->
                    IF ConstraintContained(atomic, TInt) THEN {atomic} ELSE {}
              [] OTHER -> IF is_contained_by(atomic, TInt) THEN {atomic} ELSE {}
        removed(atomic) ==
            CASE is_int(atomic) -> FALSE
              [] atomic.tag = "generic_param" -> TRUE
              [] atomic.tag = "enum_case" -> ~ConstraintContained(atomic, TInt)
              [] OTHER -> ~is_contained_by(atomic, TInt) \/ atomic.tag = "enum"
    IN  IF \E atomic \in existing_var_type : returns(atomic)
        THEN Early(get_int)
        ELSE Intersected(UNION {pushed(atomic) : atomic \in existing_var_type},
                         \E atomic \in existing_var_type : removed(atomic),
                         is_equality, key, pos)

\* the intersect_simple! macro: the atomics of the subtype pattern (accepted) are
\* kept, one of the supertype pattern (returns) makes the asserted type the result
intersect_simple(accepted, returns, max_type, existing_var_type, key, pos, is_equality) ==
    IF returns # {}
    THEN Early(max_type)
    ELSE Intersected(accepted, existing_var_type # accepted, is_equality, key, pos)

get_acceptable_type(acceptable_types, did_remove_type, key, pos) ==
    Outcome(IF acceptable_types = {} THEN get_nothing ELSE acceptable_types,
            Trigger(acceptable_types = {} \/ ~did_remove_type, ~did_remove_type, key, pos),
            acceptable_types = {}, did_remove_type)

RECURSIVE reconcile_truthy(_, _, _, _)
reconcile_truthy(existing_var_type, possibly_undefined_from_try, key, pos) ==
    LET narrowed(atomic) == ~is_truthy(atomic) \/ possibly_undefined_from_try
        pushed(atomic) ==
            CASE is_falsy(atomic) -> {}
              [] ~narrowed(atomic) -> {atomic}
              [] atomic.tag = "generic_param" ->
                    IF ~UnionIsMixed(as_type(atomic))
                    THEN {replace_template_extends(
                            atomic, reconcile_truthy(as_type(atomic), FALSE, FALSE, FALSE).types)}
                    ELSE {atomic}
              [] atomic.tag = "bool" -> {TTrue}
              [] atomic.tag \in {"vec", "dict"} -> {get_non_empty(atomic)}
              [] atomic.tag = "mixed" -> {TMixedWithFlags(FALSE, TRUE, FALSE, FALSE)}
              [] atomic.tag = "mixed_with_flags" /\ ~atomic.flags[2] /\ ~atomic.flags[3] ->
                    {TMixedWithFlags(atomic.flags[1], TRUE, FALSE, FALSE)}
              [] atomic.tag = "mixed_from_loop_isset" ->
                    {TMixedWithFlags(FALSE, TRUE, FALSE, TRUE)}
              [] atomic.tag = "string" -> {TStringWithFlags(TRUE, FALSE, FALSE)}
              [] atomic.tag = "string_with_flags" ->
                    {TStringWithFlags(TRUE, FALSE, atomic.flags[3])}
              [] OTHER -> {atomic}
        did_remove_type ==
            \/ possibly_undefined_from_try
            \/ \E atomic \in existing_var_type : is_falsy(atomic) \/ narrowed(atomic)
    IN  get_acceptable_type(UNION {pushed(atomic) : atomic \in existing_var_type}, did_remove_type, key, pos)

reconcile_isset(existing_var_type, possibly_undefined_from_try, possibly_undefined, key, pos, inside_loop) ==
    LET widened(atomic) ==
            atomic.tag = "mixed_with_flags" /\ ~atomic.flags[2] /\ ~atomic.flags[4]
        pushed(atomic) ==
            CASE atomic.tag = "null" -> {}
              [] atomic.tag = "mixed" -> {TMixedWithFlags(FALSE, FALSE, FALSE, TRUE)}
              [] widened(atomic) -> {TMixedWithFlags(atomic.flags[1], FALSE, FALSE, TRUE)}
              [] OTHER -> {atomic}
        acceptable_types == UNION {pushed(atomic) : atomic \in existing_var_type}
        did_remove_type ==
            \/ possibly_undefined
            \/ possibly_undefined_from_try
            \/ \E atomic \in existing_var_type :
                    atomic.tag \in {"null", "mixed"} \/ widened(atomic)
        issue == Trigger(~did_remove_type \/ acceptable_types = {}, ~did_remove_type, key, pos)
    IN  IF acceptable_types = {}
        THEN Outcome(get_nothing, issue, TRUE, did_remove_type)
        ELSE IF UnionIsNothing(acceptable_types)
        THEN Outcome(get_mixed_maybe_from_loop(inside_loop), issue, FALSE, did_remove_type)
        ELSE Outcome(acceptable_types, issue, FALSE, did_remove_type)

reconcile_in_array(existing_var_type, key, pos, typed_value) ==
    LET intersection == intersect_union_types(typed_value, existing_var_type)
    IN  IF intersection.some
        THEN Outcome(intersection.v, "none", FALSE, intersection.v # existing_var_type)
        ELSE Outcome(get_mixed_any, Trigger(TRUE, TRUE, key, pos), TRUE, FALSE)

(***************************************************************************)
(* An assertion: IsType and IsEqual carry an atomic (get_type), InArray    *)
(* carries a union; has_equality holds of IsEqual and IsEqualIsset.        *)
(***************************************************************************)
(***************************************************************************)
(* Known items.  In the reconciler a dict's params are an option: flags[2] *)
(* of a dict says that they are None.  The known_items of a vec are the    *)
(* third entry of its params, keyed by DictKeyInt.                         *)
(***************************************************************************)
TShapeNoParams(known_items, non_empty) ==
    Atom("dict", "", 0, <<non_empty, TRUE, FALSE, FALSE>>, <<{}, {}, known_items>>)
HasParams(a) == ~a.flags[2]
ItemsOf(a) == IF Len(a.params) = 3 THEN a.params[3] ELSE EmptyMap
WithItems(a, items) == [a EXCEPT !.params = <<a.params[1], a.params[2], items>>]
WithVecItems(a, items) == [a EXCEPT !.params = <<a.params[1], {}, items>>]

\* the atomic wrapped at lines 1796-1805: the type of the key
KeyType(key_name) == IF key_name.kind = "Int" THEN TInt ELSE TString

\* union_type_comparator::can_expression_types_be_identical: some atomic of one
\* union is contained by an atomic of the other, or one of them is mixed
can_expression_types_be_identical(type1, type2) ==
    \E a \in type1, b \in type2 :
        \/ a.tag \in ReconcilerMixedTags
        \/ b.tag \in ReconcilerMixedTags
        \/ is_contained_by(a, b)
        \/ is_contained_by(b, a)

\* subtract_null: the union without Null, Nothing when only Null was there
subtract_null(existing_var_type) ==
    LET acceptable_types == {a \in existing_var_type : a.tag # "null"}
    IN  IF acceptable_types = {} THEN get_nothing ELSE acceptable_types

\* what the loop does with one atomic: the atomics pushed to acceptable_types,
\* and whether did_remove_type is set
Pushes(atomics, removed) == [atomics |-> atomics, removed |-> removed]

\* the dict arm with a known item that keeps its flag
has_array_key_dict_KeepsFlag(atomic, key_name) ==
    LET known_items == ItemsOf(atomic) IN
    IF DOMAIN known_items # {}
    THEN IF key_name \in DOMAIN known_items
         THEN IF known_items[key_name].pu
              THEN Pushes({atomic}, TRUE)
              ELSE Pushes({atomic}, FALSE)
         ELSE IF HasParams(atomic)
         THEN Pushes({WithItems(atomic,
                          Put(known_items, key_name, Item(FALSE, atomic.params[2])))}, TRUE)
         ELSE Pushes({}, TRUE)
    ELSE IF HasParams(atomic)
    THEN IF can_expression_types_be_identical({KeyType(key_name)}, atomic.params[1])
         THEN Pushes({WithItems(atomic,
                          Put(EmptyMap, key_name, Item(FALSE, atomic.params[2])))}, TRUE)
         ELSE Pushes({}, TRUE)
    ELSE Pushes({}, TRUE)

\* lines 1782-1829
has_array_key_dict(atomic, key_name) ==
    LET known_items == ItemsOf(atomic) IN
    IF DOMAIN known_items # {}
    THEN IF key_name \in DOMAIN known_items
         THEN IF known_items[key_name].pu
              THEN Pushes({WithItems(atomic,
                               Put(known_items, key_name,
                                   Item(FALSE, known_items[key_name].type)))}, TRUE)
              ELSE Pushes({atomic}, FALSE)
         ELSE IF HasParams(atomic)
         THEN Pushes({WithItems(atomic,
                          Put(known_items, key_name, Item(FALSE, atomic.params[2])))}, TRUE)
         ELSE Pushes({}, TRUE)
    ELSE IF HasParams(atomic)
    THEN IF can_expression_types_be_identical({KeyType(key_name)}, atomic.params[1])
         THEN Pushes({WithItems(atomic,
                          Put(EmptyMap, key_name, Item(FALSE, atomic.params[2])))}, TRUE)
         ELSE Pushes({}, TRUE)
    ELSE Pushes({}, TRUE)

\* lines 1830-1860
has_array_key_vec(atomic, key_name) ==
    LET known_items == ItemsOf(atomic)
        type_param == atomic.params[1]
    IN  IF key_name.kind # "Int" THEN Pushes({}, TRUE)
        ELSE IF DOMAIN known_items # {}
        THEN IF key_name \in DOMAIN known_items
             THEN IF known_items[key_name].pu
                  THEN Pushes({WithVecItems(atomic,
                                   Put(known_items, key_name,
                                       Item(FALSE, known_items[key_name].type)))}, TRUE)
                  ELSE Pushes({atomic}, FALSE)
             ELSE IF ~UnionIsNothing(type_param)
             THEN Pushes({WithVecItems(atomic,
                              Put(known_items, key_name, Item(FALSE, type_param)))}, TRUE)
             ELSE Pushes({}, TRUE)
        ELSE IF ~UnionIsNothing(type_param)
        THEN Pushes({WithVecItems(atomic,
                         Put(EmptyMap, key_name, Item(FALSE, type_param)))}, TRUE)
        ELSE Pushes({atomic}, FALSE)

\* the end of both functions: lines 1909-1939 and 2170-2200
KnownItemOutcome(acceptable_types, did_remove_type, key, pos) ==
    Outcome(IF acceptable_types = {} THEN get_nothing ELSE acceptable_types,
            Trigger(~did_remove_type \/ acceptable_types = {}, ~did_remove_type, key, pos),
            acceptable_types = {}, did_remove_type)

\* lines 1759-1940
RECURSIVE reconcile_has_array_key(_, _, _, _, _)
reconcile_has_array_key(existing_var_type, key, pos, key_name, possibly_undefined) ==
    LET step(atomic) ==
            CASE atomic.tag = "dict" -> has_array_key_dict(atomic, key_name)
              [] atomic.tag = "vec" -> has_array_key_vec(atomic, key_name)
              [] atomic.tag = "generic_param" ->
                    IF UnionIsMixed(as_type(atomic)) THEN Pushes({atomic}, TRUE)
                    ELSE Pushes({replace_template_extends(atomic,
                                     reconcile_has_array_key(as_type(atomic), FALSE, FALSE,
                                         key_name, possibly_undefined).types)}, TRUE)
              [] atomic.tag \in ReconcilerMixedTags \cup {"named_object", "keyset"} ->
                    Pushes({atomic}, TRUE)
              [] OTHER -> Pushes({}, TRUE)
        acceptable_types == UNION {step(atomic).atomics : atomic \in existing_var_type}
        did_remove_type ==
            possibly_undefined \/ \E atomic \in existing_var_type : step(atomic).removed
    IN  KnownItemOutcome(acceptable_types, did_remove_type, key, pos)

\* lines 1964-2048
has_nonnull_entry_dict(atomic, key_name) ==
    LET known_items == ItemsOf(atomic) IN
    IF DOMAIN known_items # {}
    THEN IF key_name \in DOMAIN known_items
         THEN LET nonnull == subtract_null(known_items[key_name].type) IN
              IF known_items[key_name].pu \/ known_items[key_name].type # nonnull
              THEN Pushes({WithItems(atomic,
                               Put(known_items, key_name, Item(FALSE, nonnull)))}, TRUE)
              ELSE Pushes({atomic}, FALSE)
         ELSE IF HasParams(atomic)
         THEN Pushes({WithItems(atomic,
                          Put(known_items, key_name,
                              Item(FALSE, subtract_null(atomic.params[2]))))}, TRUE)
         ELSE Pushes({}, TRUE)
    ELSE IF HasParams(atomic)
    THEN IF can_expression_types_be_identical({KeyType(key_name)}, atomic.params[1])
         THEN Pushes({WithItems(atomic,
                          Put(EmptyMap, key_name,
                              Item(FALSE, subtract_null(atomic.params[2]))))}, TRUE)
         ELSE Pushes({}, TRUE)
    ELSE Pushes({}, TRUE)

\* lines 2049-2114
has_nonnull_entry_vec(atomic, key_name) ==
    LET known_items == ItemsOf(atomic)
        type_param == atomic.params[1]
    IN  IF key_name.kind # "Int" THEN Pushes({}, TRUE)
        ELSE IF DOMAIN known_items # {}
        THEN IF key_name \in DOMAIN known_items
             THEN LET nonnull == subtract_null(known_items[key_name].type) IN
                  IF known_items[key_name].pu \/ known_items[key_name].type # nonnull
                  THEN Pushes({WithVecItems(atomic,
                                   Put(known_items, key_name, Item(FALSE, nonnull)))}, TRUE)
                  ELSE Pushes({atomic}, FALSE)
             ELSE IF ~UnionIsNothing(type_param)
             THEN Pushes({WithVecItems(atomic,
                              Put(known_items, key_name,
                                  Item(FALSE, subtract_null(type_param))))}, TRUE)
             ELSE Pushes({}, TRUE)
        ELSE IF ~UnionIsNothing(type_param)
        THEN Pushes({WithVecItems(atomic,
                         Put(EmptyMap, key_name, Item(FALSE, subtract_null(type_param))))},
                    TRUE)
        ELSE Pushes({atomic}, FALSE)

\* lines 1942-2201
RECURSIVE reconcile_has_nonnull_entry_for_key(_, _, _, _, _)
reconcile_has_nonnull_entry_for_key(existing_var_type, key, pos, key_name, possibly_undefined) ==
    LET step(atomic) ==
            CASE atomic.tag = "dict" -> has_nonnull_entry_dict(atomic, key_name)
              [] atomic.tag = "vec" -> has_nonnull_entry_vec(atomic, key_name)
              [] atomic.tag = "generic_param" ->
                    IF UnionIsMixed(as_type(atomic)) THEN Pushes({atomic}, TRUE)
                    ELSE Pushes({replace_template_extends(atomic,
                                     reconcile_has_nonnull_entry_for_key(as_type(atomic),
                                         FALSE, FALSE, key_name, possibly_undefined).types)},
                                TRUE)
              [] atomic.tag \in ReconcilerMixedTags \cup {"named_object", "keyset"} ->
                    Pushes({atomic}, TRUE)
              [] atomic.tag \in {"string", "string_with_flags"} ->
                    Pushes(IF key_name.kind = "Int" THEN {atomic} ELSE {}, TRUE)
              [] OTHER -> Pushes({}, TRUE)
        acceptable_types == UNION {step(atomic).atomics : atomic \in existing_var_type}
        did_remove_type ==
            possibly_undefined \/ \E atomic \in existing_var_type : step(atomic).removed
    IN  KnownItemOutcome(acceptable_types, did_remove_type, key, pos)

Assertion(kind, atomic, typed_value) ==
    [kind |-> kind, atomic |-> atomic, typed_value |-> typed_value]
IsType(atomic) == Assertion("IsType", atomic, {})
IsEqual(atomic) == Assertion("IsEqual", atomic, {})
InArray(typed_value) == Assertion("InArray", TNothing, typed_value)
Bare(kind) == Assertion(kind, TNothing, {})
HasArrayKey(key_name) ==
    [kind |-> "HasArrayKey", atomic |-> TNothing, typed_value |-> {}, key_name |-> key_name]
HasNonnullEntryForKey(key_name) ==
    [kind |-> "HasNonnullEntryForKey", atomic |-> TNothing, typed_value |-> {},
     key_name |-> key_name]

has_equality(assertion) == assertion.kind \in {"IsEqual", "IsEqualIsset"}
has_type(assertion) == assertion.kind \in {"IsType", "IsEqual"}

reconcile(assertion, existing_var_type, possibly_undefined_from_try, possibly_undefined, key, pos, inside_loop) ==
    LET t == assertion.atomic.tag
        eq == has_equality(assertion)
        mixeds == ReconcilerMixedTags
        matching(pattern(_)) == {atomic \in existing_var_type : pattern(atomic)}
        scalar_sub(atomic) ==
            atomic.tag \in {"literal_int", "literal_string", "arraykey", "bool", "false",
                            "float", "int", "string_with_flags", "num", "string", "true"}
        scalar_super(atomic) == atomic.tag \in mixeds
        bool_sub(atomic) == atomic.tag \in {"bool", "false", "true"}
        bool_super(atomic) == atomic.tag \in mixeds \cup {"scalar"}
        false_sub(atomic) == atomic.tag = "false"
        false_super(atomic) ==
            \/ atomic.tag \in {"mixed", "scalar", "bool", "mixed_from_loop_isset"}
            \/ atomic.tag = "mixed_with_flags" /\ ~atomic.flags[2]
        true_sub(atomic) == atomic.tag = "true"
        true_super(atomic) ==
            \/ atomic.tag \in {"mixed", "scalar", "bool", "mixed_from_loop_isset"}
            \/ atomic.tag = "mixed_with_flags" /\ ~atomic.flags[3]
        float_sub(atomic) == atomic.tag = "float"
        float_super(atomic) == atomic.tag \in mixeds \cup {"scalar", "num"}
        by_assertion ==
            CASE assertion.kind = "Truthy" ->
                    reconcile_truthy(existing_var_type, possibly_undefined_from_try, key, pos)
              [] assertion.kind \in {"IsIsset", "IsEqualIsset"} ->
                    reconcile_isset(existing_var_type, possibly_undefined_from_try,
                                    possibly_undefined, key, pos, inside_loop)
              [] assertion.kind = "ArrayKeyExists" ->
                    Outcome(IF UnionIsNothing(existing_var_type)
                            THEN get_mixed_maybe_from_loop(inside_loop)
                            ELSE existing_var_type,
                            "none", FALSE, FALSE)
              [] assertion.kind = "InArray" ->
                    reconcile_in_array(existing_var_type, key, pos, assertion.typed_value)
              [] assertion.kind = "HasArrayKey" ->
                    reconcile_has_array_key(existing_var_type, key, pos, assertion.key_name,
                                            possibly_undefined)
              [] assertion.kind = "HasNonnullEntryForKey" ->
                    reconcile_has_nonnull_entry_for_key(existing_var_type, key, pos,
                                                        assertion.key_name,
                                                        possibly_undefined)
              [] OTHER -> NoOutcome
    IN  IF ~has_type(assertion) THEN by_assertion
        ELSE
        CASE t = "scalar" ->
                intersect_simple(matching(scalar_sub), matching(scalar_super) \ matching(scalar_sub),
                                 {TScalar}, existing_var_type, key, pos, eq)
          [] t = "bool" ->
                intersect_simple(matching(bool_sub), matching(bool_super) \ matching(bool_sub),
                                 {TBool}, existing_var_type, key, pos, eq)
          [] t = "false" ->
                intersect_simple(matching(false_sub), matching(false_super) \ matching(false_sub),
                                 {TFalse}, existing_var_type, key, pos, eq)
          [] t = "true" ->
                intersect_simple(matching(true_sub), matching(true_super) \ matching(true_sub),
                                 {TTrue}, existing_var_type, key, pos, eq)
          [] t = "float" ->
                intersect_simple(matching(float_sub), matching(float_super) \ matching(float_sub),
                                 {TFloat}, existing_var_type, key, pos, eq)
          [] t = "null" -> intersect_null(existing_var_type, key, pos)
          [] t = "object" -> intersect_object(existing_var_type, key, pos, eq)
          [] t = "arraykey" -> intersect_arraykey(existing_var_type, key, pos, eq)
          [] t = "num" -> intersect_num(existing_var_type, key, pos, eq)
          [] t = "string" -> intersect_string(existing_var_type, key, pos, eq)
          [] t = "int" -> intersect_int(existing_var_type, key, pos, eq)
          [] t \in {"mixed", "mixed_from_loop_isset"} /\ UnionIsMixed(existing_var_type) ->
                Outcome(existing_var_type, "none", FALSE, FALSE)
          [] OTHER -> by_assertion

(***************************************************************************)
(* The state of one call of combine, replayed once on its own result.      *)
(***************************************************************************)
VARIABLES
    types,          \* the argument of combine
    codebase,       \* whether a codebase is passed
    overwrite,      \* overwrite_empty_array
    idx,            \* the next atomic of the loop of lines 22-29
    combination,    \* the TypeCombination
    result,         \* what combine returned
    pc,             \* "call", "scrape", "done" or "panic"
    round,          \* 1: the call on the input, 2: the call on the first result
    first_types,    \* the argument of the first call
    first           \* the result of the first call

cvars ==
    <<types, codebase, overwrite, idx, combination, result, pc, round, first_types,
      first>>

(***************************************************************************)
(* The state of a chain of reconciliations of one variable: each call      *)
(* narrows the union the call before it returned.                          *)
(***************************************************************************)
VARIABLES
    existing_var_type,            \* the union of the variable
    possibly_undefined_from_try,  \* the flag of that union
    assertion,                    \* the assertion of the last call
    possibly_undefined,           \* arguments of the last call
    key,                          \* whether a key is passed
    pos,                          \* whether a position is passed
    inside_loop,
    outcome,                      \* what the last call gave
    issues,                       \* how many issues tast_info holds
    assertions,                   \* how many calls were made
    rpc                           \* "idle", "call" or "returned"

rvars ==
    <<existing_var_type, possibly_undefined_from_try, assertion, possibly_undefined, key,
      pos, inside_loop, outcome, issues, assertions, rpc>>

(***************************************************************************)
(* The state of one call of SymbolReferences::get_invalid_symbols.  A      *)
(* symbol or member is a pair of names, the second "" for a symbol; a      *)
(* lookup table is the set of its pairs <<referencing, referenced>>.       *)
(***************************************************************************)
VARIABLES
    symbol_references_to_symbols,               \* references from bodies
    symbol_references_to_symbols_in_signature,  \* references from signatures
    codebase_diff,                              \* [add_or_delete, keep_signature]
    new_invalid_symbols,                        \* the work list, a Vec
    seen_symbols,
    invalid_symbols,
    invalid_symbol_members,
    invalid_returned,                           \* the first set of the returned pair
    partially_invalid_symbols,                  \* the second set of the returned pair
    ipc                                         \* "idle", "closure", "bodies", "keep", "done"

ivars ==
    <<symbol_references_to_symbols, symbol_references_to_symbols_in_signature, codebase_diff,
      new_invalid_symbols, seen_symbols, invalid_symbols, invalid_symbol_members,
      invalid_returned, partially_invalid_symbols, ipc>>

(***************************************************************************)
(* The state of one call of find_unused_definitions.                       *)
(***************************************************************************)
VARIABLES
    codebase_info,     \* functionlike_infos, classlike_infos, symbols, classlike_descendants
    config,            \* what Config answers
    ignored_paths,     \* an option of a set of patterns
    analysis_result,   \* symbol_references, emitted_issues, issue_counts, replacements
    todo_functions,    \* the functions the first loop has still to visit, in its order
    todo_classes,      \* the classlikes the second loop has still to visit
    todo_methods,      \* the methods the inner loop has still to visit
    current_class,     \* the classlike of the inner loop, "" outside it
    upc                \* "idle", "functions", "classes", "methods" or "done"

uvars ==
    <<codebase_info, config, ignored_paths, analysis_result, todo_functions, todo_classes,
      todo_methods, current_class, upc>>

\* scan_and_analyze and its worker threads (file_scanner_analyzer/lib.rs)
VARIABLES
    files_to_analyze,        \* the paths scan_files found, in order
    aast,                    \* per path, what parsing and analysing it comes to
    threads,                 \* the argument threads
    filter,                  \* the argument filter
    paths_ignored,           \* the argument ignored_paths
    graph_kind,              \* config.graph_kind
    find_unused,             \* config.find_unused_definitions
    arc_codebase,            \* how far the codebase is built
    paths,                   \* analyze_files' paths, once retained
    path_groups,             \* group -> the paths of the group
    thread,                  \* group -> the worker's position and private result
    handles,                 \* the join handles, in the order of spawning
    mutex,                   \* who holds the lock of the shared result
    files_processed,         \* the shared tally
    shared_analysis_result,  \* the Arc<Mutex<AnalysisResult>>
    returned,                \* scan_and_analyze's own analysis_result
    analyzed,                \* per path, how often analyze_file was called on it
    main_pc                  \* where the calling thread is

avars ==
    <<files_to_analyze, aast, threads, filter, paths_ignored, graph_kind, find_unused,
      arc_codebase, paths, path_groups, thread, handles, mutex, files_processed,
      shared_analysis_result, returned, analyzed, main_pc>>

\* expression_analyzer::analyze (analyzer/expression_analyzer.rs)
VARIABLES
    expr,        \* the expression analyze is called on
    tast_info,   \* the TastInfo it works on
    context,     \* the ScopeContext it works on
    ret,         \* what the call returned
    epc          \* "idle", "call" or "returned"

evars == <<expr, tast_info, context, ret, epc>>

\* one call of SymbolReferences::extend (code_info/symbol_references.rs)
VARIABLES
    self_references,   \* self, before and after the call
    other_references,  \* other
    before_extend,     \* self as it was when the call began
    mpc                \* "idle", "call" or "returned"

mvars == <<self_references, other_references, before_extend, mpc>>

\* One call of arithmetic_analyzer::analyze.
VARIABLES
    operator,          \* the ast::Bop of the expression
    e1_type,           \* the type of the left operand: its atomics in iteration order
                       \* and ignore_falsable_issues
    e2_type,           \* the type of the right operand
    e1_idx,            \* position of the outer loop in e1_type.types
    e2_idx,            \* position of the inner loop in e2_type.types
    results,           \* the vector results
    expr_type,         \* what set_expr_type recorded for the expression
    overflow_checks,   \* the build panics on integer overflow (debug) or wraps (release)
    bpc                \* "idle", "loop", "returned" or "panicked"

bvars == <<operator, e1_type, e2_type, e1_idx, e2_idx, results, expr_type,
           overflow_checks, bpc>>

\* The grouping of paths by scan_files and by analyze_files.
VARIABLES
    caller,            \* "scan_files" or "analyze_files"
    group_threads,     \* the parameter threads
    to_group,          \* files_to_scan, or paths after the retains
    grouped,           \* the map path_groups
    gpc                \* "idle", "call", "returned" or "panicked"

gvars == <<caller, group_threads, to_group, grouped, gpc>>

\* Runs of scan_and_analyze over one cache directory, with the files of the
\* project edited between them.
VARIABLES
    on_disk,            \* the files found by find_files_in_dir: path -> modification time
    cache_dir,          \* the files buildinfo, manifest and codebase of the cache directory
    file_statuses,      \* what the last scan_files returned: path -> FileStatus
    returned_codebase,  \* the codebase the last scan_files returned
    runs,               \* the runs so far
    kpc                 \* "idle", "between", "scanned" or "returned"

kvars == <<on_disk, cache_dir, file_statuses, returned_codebase, runs, kpc>>

\* the state of the calls modelled one at a time
zvars == <<mvars, bvars, gvars, kvars>>

\* the state outside the combiner and the reconciler
xvars == <<ivars, uvars, avars, evars, zvars>>

vars == <<cvars, rvars, xvars>>

NoDiff == [add_or_delete |-> <<>>, keep_signature |-> {}]

\* no invalidation is going on
InvalidationIdle ==
    /\ symbol_references_to_symbols = {}
    /\ symbol_references_to_symbols_in_signature = {}
    /\ codebase_diff = NoDiff
    /\ new_invalid_symbols = <<>>
    /\ seen_symbols = {}
    /\ invalid_symbols = {}
    /\ invalid_symbol_members = {}
    /\ invalid_returned = {}
    /\ partially_invalid_symbols = {}
    /\ ipc = "idle"

NoSymbolReferences ==
    [symbol_references_to_symbols |-> {},
     symbol_references_to_symbols_in_signature |-> {},
     symbol_references_to_overridden_members |-> {}]

NoAnalysisResult ==
    [symbol_references |-> NoSymbolReferences,
     emitted_issues |-> <<>>,
     issue_counts |-> [k \in {} |-> 0],
     replacements |-> {}]

NoCodebase ==
    [functionlike_infos |-> <<>>, classlike_infos |-> <<>>, symbols |-> <<>>,
     classlike_descendants |-> <<>>]

NoConfig == [disallowed_in_file |-> {}, ignored_issues |-> {}, migration_symbols |-> {}]

\* no search for unused definitions is going on
UnusedIdle ==
    /\ codebase_info = NoCodebase
    /\ config = NoConfig
    /\ ignored_paths = NoneRet
    /\ analysis_result = NoAnalysisResult
    /\ todo_functions = <<>>
    /\ todo_classes = <<>>
    /\ todo_methods = <<>>
    /\ current_class = ""
    /\ upc = "idle"

\* SymbolReferences::new, the tables as maps from a referencing symbol or member
NewSymbolReferences ==
    [symbol_references_to_symbols |-> <<>>,
     symbol_references_to_symbols_in_signature |-> <<>>,
     symbol_references_to_overridden_members |-> <<>>,
     functionlike_references_to_functionlike_returns |-> <<>>]

\* AnalysisResult::new
NewAnalysisResult ==
    [symbol_references |-> NewSymbolReferences,
     emitted_issues |-> <<>>,
     issue_counts |-> <<>>,
     taint_flow_graph |-> {}]

\* filter: None
NoFilter == [some |-> FALSE, v |-> ""]

\* scan_and_analyze is not running
AnalysisIdle ==
    /\ files_to_analyze = <<>>
    /\ aast = <<>>
    /\ threads = 1
    /\ filter = NoFilter
    /\ paths_ignored = NoneRet
    /\ graph_kind = "FunctionBody"
    /\ find_unused = FALSE
    /\ arc_codebase = "new"
    /\ paths = <<>>
    /\ path_groups = <<>>
    /\ thread = <<>>
    /\ handles = <<>>
    /\ mutex = {}
    /\ files_processed = 0
    /\ shared_analysis_result = NewAnalysisResult
    /\ returned = NewAnalysisResult
    /\ analyzed = <<>>
    /\ main_pc = "idle"

\* DataFlowGraph::new(kind)
NewGraph(kind) == [kind |-> kind, nodes |-> {}, paths |-> {}]

\* a TastInfo that has recorded nothing
NewTastInfo(kind) ==
    [expr_types |-> <<>>,
     expr_effects |-> <<>>,
     expr_fixme_positions |-> <<>>,
     current_stmt_offset |-> [some |-> FALSE, v |-> <<0, 0>>],
     data_flow_graph |-> NewGraph(kind),
     symbol_references |-> {},
     issues |-> <<>>]

\* a ScopeContext with no variable in scope
NewContext == [vars_in_scope |-> <<>>]

\* no expression
NoExpr == [kind |-> "", pos |-> <<0, 0>>, args |-> <<>>, text |-> "", digits |-> <<>>]

\* no expression is being analysed
ExpressionIdle ==
    /\ expr = NoExpr
    /\ tast_info = NewTastInfo("FunctionBody")
    /\ context = NewContext
    /\ ret = FALSE
    /\ epc = "idle"

\* extend is not being called
ExtendIdle ==
    /\ self_references = NewSymbolReferences
    /\ other_references = NewSymbolReferences
    /\ before_extend = NewSymbolReferences
    /\ mpc = "idle"

NoOperand == [types |-> <<>>, ignore_falsable_issues |-> FALSE]
NoExprType == [some |-> FALSE, types |-> {}]

\* no arithmetic expression is being analysed
ArithmeticIdle ==
    /\ operator = "none"
    /\ e1_type = NoOperand
    /\ e2_type = NoOperand
    /\ e1_idx = 1
    /\ e2_idx = 1
    /\ results = <<>>
    /\ expr_type = NoExprType
    /\ overflow_checks = FALSE
    /\ bpc = "idle"

\* no paths are being grouped
GroupingIdle ==
    /\ caller = "none"
    /\ group_threads = 1
    /\ to_group = <<>>
    /\ grouped = <<>>
    /\ gpc = "idle"

NoFile == [some |-> FALSE, v |-> EmptyMap]
EmptyCacheDir == [buildinfo |-> FALSE, manifest |-> NoFile, codebase |-> NoFile]

\* CodebaseInfo::new(): the tables of the codebase that load_cached_codebase
\* reads and prunes
NewCodebaseInfo ==
    [functionlike_infos |-> {}, type_definitions |-> {}, constant_infos |-> {},
     classlike_infos |-> {}, functions_in_files |-> EmptyMap,
     typedefs_in_files |-> EmptyMap, const_files |-> EmptyMap,
     classlikes_in_files |-> EmptyMap]

\* no cached run is going on
CacheIdle ==
    /\ on_disk = EmptyMap
    /\ cache_dir = EmptyCacheDir
    /\ file_statuses = EmptyMap
    /\ returned_codebase = NewCodebaseInfo
    /\ runs = 0
    /\ kpc = "idle"

ZIdle == ExtendIdle /\ ArithmeticIdle /\ GroupingIdle /\ CacheIdle

XIdle == InvalidationIdle /\ UnusedIdle /\ AnalysisIdle /\ ExpressionIdle /\ ZIdle

NoCall == [kind |-> "none"]

\* no reconciliation is going on
ReconcilerIdle ==
    /\ existing_var_type = {}
    /\ possibly_undefined_from_try = FALSE
    /\ assertion = NoCall
    /\ possibly_undefined = FALSE
    /\ key = FALSE
    /\ pos = FALSE
    /\ inside_loop = FALSE
    /\ outcome = NoOutcome
    /\ issues = 0
    /\ assertions = 0
    /\ rpc = "idle"

NoResult == Returned({})

Init ==
    /\ types \in Inputs
    /\ codebase \in BOOLEAN
    /\ overwrite = FALSE
    /\ idx = 1
    /\ combination = NewCombination
    /\ result = NoResult
    /\ pc = "call"
    /\ round = 1
    /\ first_types = types
    /\ first = NoResult
    /\ ReconcilerIdle
    /\ XIdle

\* lines 16-20
Enter ==
    /\ pc = "call"
    /\ IF Len(types) = 1
       THEN /\ result' = Returned(Range(types))
            /\ pc' = "done"
       ELSE /\ pc' = "scrape"
            /\ UNCHANGED result
    /\ UNCHANGED <<types, codebase, overwrite, idx, combination, round, first_types,
                   first>>
    /\ UNCHANGED <<rvars, xvars>>

\* lines 22-29, one iteration
Scrape ==
    /\ pc = "scrape"
    /\ idx <= Len(types)
    /\ LET r == ScrapeTypeProperties(types[idx], combination, codebase, overwrite)
       IN  IF r.ret.some
           THEN /\ result' = Returned(r.ret.v)
                /\ pc' = "done"
                /\ UNCHANGED <<combination, idx>>
           ELSE /\ combination' = r.comb
                /\ idx' = idx + 1
                /\ UNCHANGED <<result, pc>>
    /\ UNCHANGED <<types, codebase, overwrite, round, first_types, first>>
    /\ UNCHANGED <<rvars, xvars>>

\* lines 31-243; the iteration order of the hash set of enum cases is left open
Finish ==
    /\ pc = "scrape"
    /\ idx > Len(types)
    /\ \E hash_desc \in BOOLEAN : result' = Finalize(combination, hash_desc)
    /\ pc' = IF result'.panic THEN "panic" ELSE "done"
    /\ UNCHANGED <<types, codebase, overwrite, idx, combination, round, first_types,
                   first>>
    /\ UNCHANGED <<rvars, xvars>>

\* the caller combines the returned list again
Recombine ==
    /\ pc = "done"
    /\ round = 1
    /\ \E again \in Replays(result.types) :
          /\ types' = again
          /\ first' = result
          /\ round' = 2
          /\ pc' = "call"
          /\ idx' = 1
          /\ combination' = NewCombination
          /\ result' = NoResult
    /\ UNCHANGED <<codebase, overwrite, first_types>>
    /\ UNCHANGED <<rvars, xvars>>

Next == Enter \/ Scrape \/ Finish \/ Recombine

Spec == Init /\ [][Next]_vars

(***************************************************************************)
(* The reconciler's inputs.                                                *)
(***************************************************************************)
MaxAssertions == 2   \* a variable is narrowed by up to MaxAssertions assertions in a row

GenericMixed == TGenericParam("T", {TMixed})
GenericArraykey == TGenericParam("Tk", {TInt, TString})

ReconcilerAtoms ==
    {TMixed, TMixedFromLoopIsset, TNull, TNothing, TInt, TFloat, TString, TBool, TTrue,
     TFalse, TArraykey, TNum, TScalar, TObject}
    \cup {TMixedWithFlags(TRUE, FALSE, FALSE, FALSE), TMixedWithFlags(FALSE, TRUE, FALSE, FALSE),
          TMixedWithFlags(FALSE, FALSE, TRUE, FALSE), TMixedWithFlags(FALSE, FALSE, FALSE, TRUE)}
    \cup {TLiteralInt(0), TLiteralInt(1), TLiteralString("a"),
          TStringWithFlags(TRUE, FALSE, FALSE)}
    \cup {TNamedObject("A"), TNamedObject("B")}
    \cup {GenericMixed, GenericArraykey}
    \cup {TEnumLiteralCase("E", 1), TConstrainedEnumCase("E", 2, TInt)}
    \cup {TVec({TInt}, FALSE)}

\* a union holds no atomic that another of its atomics contains
WellFormed(u) == \A a, b \in u : a # b => ~is_contained_by(a, b)

ExistingUnions ==
    {u \in {{a, b} : a, b \in ReconcilerAtoms} :
        /\ WellFormed(u)
        /\ Cardinality(u) > 1 => \A a \in u : a.tag \notin ReconcilerMixedTags}

AssertedTypes ==
    {TScalar, TBool, TFalse, TTrue, TFloat, TNull, TObject, TArraykey, TNum, TString, TInt,
     TMixed}

Assertions ==
    {IsType(t) : t \in AssertedTypes}
    \cup {IsEqual(t) : t \in {TNull, TInt, TString}}
    \cup {Bare(k) : k \in {"Truthy", "IsIsset", "IsEqualIsset", "ArrayKeyExists"}}
    \cup {InArray(u) : u \in {{TInt}, {TString}, {TLiteralInt(1), TLiteralString("a")}}}

CombinerIdle ==
    /\ types = <<>>
    /\ codebase = FALSE
    /\ overwrite = FALSE
    /\ idx = 1
    /\ combination = NewCombination
    /\ result = NoResult
    /\ pc = "idle"
    /\ round = 1
    /\ first_types = <<>>
    /\ first = NoResult

InitReconcile ==
    /\ CombinerIdle
    /\ XIdle
    /\ existing_var_type \in ExistingUnions
    /\ possibly_undefined_from_try \in BOOLEAN
    /\ assertion = NoCall
    /\ possibly_undefined = FALSE
    /\ key = FALSE
    /\ pos = FALSE
    /\ inside_loop = FALSE
    /\ outcome = NoOutcome
    /\ issues = 0
    /\ assertions = 0
    /\ rpc = "call"

\* one call of reconcile, lines 30-445, with what it reports to tast_info
Call(a) ==
    /\ rpc = "call"
    /\ assertions < MaxAssertions
    /\ \E k, p, u, l \in BOOLEAN :
          /\ key' = k
          /\ pos' = p
          /\ possibly_undefined' = u
          /\ inside_loop' = l
          /\ outcome' = reconcile(a, existing_var_type, possibly_undefined_from_try,
                                  u, k, p, l)
    /\ assertion' = a
    /\ issues' = IF outcome'.issue = "none" THEN issues ELSE issues + 1
    /\ assertions' = assertions + 1
    /\ rpc' = "returned"
    /\ UNCHANGED <<existing_var_type, possibly_undefined_from_try>>
    /\ UNCHANGED <<cvars, xvars>>

ReconcileType == \E a \in Assertions : has_type(a) /\ Call(a)

ReconcileTruthy == \E a \in Assertions : a.kind = "Truthy" /\ Call(a)

ReconcileIsset == \E a \in Assertions : a.kind \in {"IsIsset", "IsEqualIsset"} /\ Call(a)

ReconcileArrayKeyExists == \E a \in Assertions : a.kind = "ArrayKeyExists" /\ Call(a)

ReconcileInArray == \E a \in Assertions : a.kind = "InArray" /\ Call(a)

\* the call is over: the caller keeps the narrowed union for the variable, and
\* None leaves it as it was
Narrowed ==
    /\ rpc = "returned"
    /\ existing_var_type' = IF outcome.some THEN outcome.types ELSE existing_var_type
    /\ possibly_undefined_from_try' =
          IF outcome.some THEN FALSE ELSE possibly_undefined_from_try
    /\ assertion' = NoCall
    /\ possibly_undefined' = FALSE
    /\ key' = FALSE
    /\ pos' = FALSE
    /\ inside_loop' = FALSE
    /\ outcome' = NoOutcome
    /\ rpc' = "call"
    /\ UNCHANGED <<issues, assertions>>
    /\ UNCHANGED <<cvars, xvars>>

NextReconcile ==
    \/ ReconcileType
    \/ ReconcileTruthy
    \/ ReconcileIsset
    \/ ReconcileArrayKeyExists
    \/ ReconcileInArray
    \/ Narrowed

SpecReconcile == InitReconcile /\ [][NextReconcile]_vars

(***************************************************************************)
(* Properties of combine.                                                  *)
(***************************************************************************)
Done == pc = "done"
Inputs2 == Range(types)
NonMixed(a) == ~IsMixedAtomic(a)

\* C1: combine([a, b]) and combine([b, a]) return the same set of atomics.
\* Stated as the claim; the code breaks it.
C1_Commutative ==
    (Done /\ Len(types) = 2) =>
        \E hash_desc \in BOOLEAN :
            result = Combine(Reverse(types), codebase, overwrite, hash_desc)

\* C2: combining the list combine returned gives that list again (as a set).
\* Stated as the claim, in its weakest reading: the returned list comes back in
\* the order that suits the claim best.  The code breaks it.
C2_Idempotent ==
    (Done /\ round = 1) =>
        \E again \in Replays(result.types), hash_desc \in BOOLEAN :
            Combine(again, codebase, overwrite, hash_desc) = result

\* C5: a list that contains Mixed and otherwise only atomics outside the mixed
\* family combines to [Mixed].
C5_MixedAbsorbs ==
    (Done /\ TMixed \in Inputs2 /\ \A a \in Inputs2 \ {TMixed} : NonMixed(a)) =>
        result = Returned({TMixed})

C5_Witness ==
    /\ Done
    /\ Len(types) = 2
    /\ types[1] = TMixed
    /\ types[2] = TInt
    /\ result = Returned({TMixed})

DistinctLiteralInts(seq) ==
    Injective(seq) /\ \A i \in 1..Len(seq) : seq[i].tag = "literal_int"

SubtypePairs == {<<"B", "A">>, <<"C", "I">>, <<"J", "I">>}

\* C7: with a codebase in which B extends or implements A, combine([A, B]) and
\* combine([B, A]) both return [A].
C7_ObjectSubtyping ==
    \A p \in SubtypePairs :
        LET sub == TNamedObject(p[1])
            sup == TNamedObject(p[2])
        IN  (Done /\ codebase /\ types \in {<<sup, sub>>, <<sub, sup>>}) =>
                result = Returned({sup})

C7_Witness ==
    /\ Done
    /\ codebase
    /\ types = <<TNamedObject("B"), TNamedObject("A")>>
    /\ result = Returned({TNamedObject("A")})

\* C8, as claimed: string|int is arraykey, int|float is num, arraykey|num|bool is
\* scalar.
C8_Ladder ==
    Done =>
        /\ Inputs2 = {TString, TInt} => result = Returned({TArraykey})
        /\ Inputs2 = {TInt, TFloat} => result = Returned({TNum})
        /\ Inputs2 = {TArraykey, TNum, TBool} => result = Returned({TScalar})

\* C8, amended: string|int, int|float and arraykey|num|bool stay as they are; the
\* only collapse is string|int|float|bool to scalar, while arraykey absorbs string
\* and int, and num absorbs int and float.
C8_NoLadder ==
    Done =>
        /\ Inputs2 = {TString, TInt} => result = Returned({TString, TInt})
        /\ Inputs2 = {TInt, TFloat} => result = Returned({TInt, TFloat})
        /\ Inputs2 = {TArraykey, TNum, TBool} => result = Returned({TArraykey, TNum, TBool})
        /\ Inputs2 = {TString, TInt, TFloat, TBool} => result = Returned({TScalar})
        /\ (TArraykey \in Inputs2 /\ Inputs2 \subseteq {TArraykey, TString, TInt})
              => result = Returned({TArraykey})
        /\ (TNum \in Inputs2 /\ Inputs2 \subseteq {TNum, TInt, TFloat})
              => result = Returned({TNum})

C8_Witness ==
    /\ Done
    /\ types = <<TString, TInt>>
    /\ result = Returned({TString, TInt})

\* C9: of two or more atomics, Nothing is returned only if every one is Nothing.
\* Stated as the claim; the code breaks it.
C9_NothingEliminated ==
    (Done /\ Len(types) >= 2) =>
        IF Inputs2 = {TNothing}
        THEN result = Returned({TNothing})
        ELSE TNothing \notin result.types

\* C10, as claimed: [MixedAny] is returned only when every input atomic is MixedAny
\* or Mixed.
C10_AnyOnlyFromMixed ==
    (Done /\ result = Returned({TMixedAny})) => Inputs2 \subseteq {TMixedAny, TMixed}

\* C10, amended: [MixedAny] is returned only when some input atomic is MixedAny,
\* and it is returned whenever one is and the other inputs are Mixed, MixedAny or
\* outside the mixed family (so combine([Int, MixedAny]) = [MixedAny]).
C10_AnyFromAny ==
    Done =>
        /\ result = Returned({TMixedAny}) => TMixedAny \in Inputs2
        /\ (/\ TMixedAny \in Inputs2
            /\ \A a \in Inputs2 : a \in {TMixedAny, TMixed} \/ NonMixed(a))
              => result = Returned({TMixedAny})

C10_Witness ==
    /\ Done
    /\ types = <<TInt, TMixedAny>>
    /\ result = Returned({TMixedAny})


(***************************************************************************)
(* Properties of reconcile.  A union stands for a set of runtime values;   *)
(* the values below are enough to tell the atomics of the model apart.     *)
(***************************************************************************)
Returns == rpc = "returned" /\ outcome.some

Falsy == {"null", "false", "0", "0.0", "''", "vec[]"}
Ints == {"0", "1"}
Floats == {"0.0", "1.5"}
Strings == {"''", "'a'", "'b'"}
Bools == {"true", "false"}
Objects == {"new A", "new B", "new X"}
Vecs == {"vec[]", "vec[1]"}
AllValues == {"null"} \cup Ints \cup Floats \cup Strings \cup Bools \cup Objects \cup Vecs

RECURSIVE ValuesOf(_)
ValuesOf(a) ==
    CASE a.tag \in {"mixed", "mixed_from_loop_isset"} -> AllValues
      [] a.tag = "mixed_with_flags" ->
            {v \in AllValues : /\ a.flags[2] => v \notin Falsy
                               /\ a.flags[3] => v \in Falsy
                               /\ a.flags[4] => v # "null"}
      [] a.tag = "null" -> {"null"}
      [] a.tag = "nothing" -> {}
      [] a.tag = "int" -> Ints
      [] a.tag = "literal_int" -> {IF a.num = 0 THEN "0" ELSE "1"}
      [] a.tag = "float" -> Floats
      [] a.tag = "string" -> Strings
      [] a.tag = "literal_string" -> {"'a'"}
      [] a.tag = "string_with_flags" -> IF a.flags[1] THEN Strings \ Falsy ELSE Strings
      [] a.tag = "bool" -> Bools
      [] a.tag = "true" -> {"true"}
      [] a.tag = "false" -> {"false"}
      [] a.tag = "arraykey" -> Ints \cup Strings
      [] a.tag = "num" -> Ints \cup Floats
      [] a.tag = "scalar" -> Ints \cup Floats \cup Strings \cup Bools
      [] a.tag = "object" -> Objects
      [] a.tag = "named_object" -> IF a.name = "A" THEN {"new A", "new B"} ELSE {"new B"}
      [] a.tag = "generic_param" -> UNION {ValuesOf(b) : b \in a.params[1]}
      [] a.tag = "enum_case" -> IF a.params = <<>> THEN {"'b'"} ELSE {"1"}
      [] a.tag = "vec" -> IF a.flags[1] THEN Vecs \ Falsy ELSE Vecs

ValuesIn(u) == UNION {ValuesOf(a) : a \in u}

\* C3: Reconciliation soundness. The union reconcile returns for a positive
\* assertion holds no value outside the existing union; the one exception is
\* IsIsset or IsEqualIsset on the union Nothing, which gives a mixed type.
C3_Sound ==
    Returns =>
        \/ ValuesIn(outcome.types) \subseteq ValuesIn(existing_var_type)
        \/ /\ assertion.kind \in {"IsIsset", "IsEqualIsset"}
           /\ existing_var_type = get_nothing

\* the assertions that are there to remove atomics from the union
SupposedToNarrow(a) ==
    /\ ~has_equality(a)
    /\ a.kind # "ArrayKeyExists"
    /\ ~(has_type(a) /\ a.atomic.tag = "mixed")

\* C4: Impossibility detection. When reconcile finds no atomic of the existing
\* union acceptable, or removes none although the assertion is there to narrow,
\* and it is given a key and a position, it triggers an impossible or redundant
\* issue; and when nothing is acceptable it returns Nothing.
C4_Impossible ==
    Returns =>
        /\ ( /\ \/ outcome.acceptable_empty
                \/ ~outcome.did_remove_type /\ SupposedToNarrow(assertion)
             /\ key /\ pos )
           => outcome.issue # "none"
        /\ outcome.acceptable_empty => outcome.types = get_nothing

(***************************************************************************)
(* combine on containers: two dicts with known_items, and lists of dicts,  *)
(* vecs, keysets, Containers and KeyedContainers.                          *)
(***************************************************************************)
MaxContainerLen == 2    \* every list of up to MaxContainerLen container atomics

KeyA == DictKeyString("a")
KeyB == DictKeyString("b")
ItemKeys == {KeyA, KeyB}
ItemTypes == {{TInt}, {TString}}
KeyParams == {{TString}, {TInt}}
ValueParams == {{TInt}, {TString}}

ItemMaps ==
    UNION {[ks -> {Item(pu, t) : pu \in BOOLEAN, t \in ItemTypes}] :
             ks \in (SUBSET ItemKeys) \ {{}}}

ShapeParams == {<<{TString}, {TInt}>>, <<{TInt}, {TString}>>}

Shapes ==
    {TShape(p[1], p[2], items, ne, "") :
        p \in ShapeParams, items \in ItemMaps, ne \in BOOLEAN}

ShapeNames == {TShape({TString}, {TInt}, [k \in {KeyA} |-> Item(FALSE, {TInt})], TRUE, n) :
                 n \in {"", "S", "T"}}

ContainerAtoms ==
    {TDict(k, v, FALSE) : k \in KeyParams, v \in ValueParams}
    \cup {TVec(v, ne) : v \in ValueParams, ne \in BOOLEAN}
    \cup {TKeyset({TString})}
    \cup {TGenericObject(KeyedContainer, <<k, v>>) : k \in KeyParams, v \in ValueParams}
    \cup {TGenericObject(Container, <<v>>) : v \in ValueParams}

ContainerInputs ==
    {<<a, b>> : a \in Shapes, b \in Shapes}
    \cup {<<a, b>> : a \in ShapeNames, b \in ShapeNames}
    \cup SeqsUpTo(ContainerAtoms, MaxContainerLen)

InitContainers ==
    /\ types \in ContainerInputs
    /\ codebase \in BOOLEAN
    /\ overwrite \in BOOLEAN
    /\ idx = 1
    /\ combination = NewCombination
    /\ result = NoResult
    /\ pc = "call"
    /\ round = 1
    /\ first_types = types
    /\ first = NoResult
    /\ ReconcilerIdle
    /\ XIdle

SpecContainers == InitContainers /\ [][Next]_vars

IsDict(a) == a.tag = "dict"
IsVec(a) == a.tag = "vec"
IsKeyedContainer(a) == a.tag = "named_object" /\ a.name = KeyedContainer

\* C11: combining two dicts that both carry known_items returns one dict; its
\* params are the unions of the params; an item known to both is possibly undefined
\* when it is in either and has the union of the two types; an item known to one
\* only is possibly undefined and keeps its type.
C11_DictMerge ==
    (/\ Done
     /\ Len(types) = 2
     /\ IsDict(types[1]) /\ HasKnownItems(types[1])
     /\ IsDict(types[2]) /\ HasKnownItems(types[2])) =>
        LET a == types[1]
            b == types[2]
            ia == KnownItems(a)
            ib == KnownItems(b)
        IN  \E d \in result.types :
              /\ result.types = {d}
              /\ IsDict(d)
              /\ d.params[1] = a.params[1] \cup b.params[1]
              /\ d.params[2] = a.params[2] \cup b.params[2]
              /\ HasKnownItems(d)
              /\ DOMAIN KnownItems(d) = (DOMAIN ia) \cup (DOMAIN ib)
              /\ \A k \in DOMAIN KnownItems(d) :
                    LET item == KnownItems(d)[k] IN
                    IF k \in DOMAIN ia /\ k \in DOMAIN ib
                    THEN /\ item.pu = (ia[k].pu \/ ib[k].pu)
                         /\ item.type = ia[k].type \cup ib[k].type
                    ELSE /\ item.pu
                         /\ item.type = IF k \in DOMAIN ia THEN ia[k].type ELSE ib[k].type

C11_Witness ==
    /\ Done
    /\ types = <<TShape({TString}, {TInt},
                        [k \in {KeyA, KeyB} |-> Item(k = KeyA, {TInt})], TRUE, ""),
                 TShape({TInt}, {TString}, [k \in {KeyA} |-> Item(FALSE, {TString})], TRUE, "")>>
    /\ result.types =
           {TShape({TString, TInt}, {TString, TInt},
                   [k \in {KeyA, KeyB} |->
                       Item(TRUE, IF k = KeyA THEN {TInt, TString} ELSE {TInt})],
                   TRUE, "")}

\* C12: dict<K,V> with KeyedContainer<K',V'>, in either order, gives the single
\* atomic KeyedContainer<K|K', V|V'>; vec<V> with KeyedContainer<K,V'>, in either
\* order, gives the single atomic KeyedContainer<int|K, V|V'>.
C12_Promotion ==
    (Done /\ Len(types) = 2) =>
        \A i \in 1..2 :
            LET a == types[i]
                kc == types[3 - i]
            IN  /\ (IsDict(a) /\ IsKeyedContainer(kc)) =>
                       result.types =
                           {TGenericObject(KeyedContainer,
                                <<a.params[1] \cup kc.params[1],
                                  a.params[2] \cup kc.params[2]>>)}
                /\ (IsVec(a) /\ IsKeyedContainer(kc)) =>
                       result.types =
                           {TGenericObject(KeyedContainer,
                                <<{TInt} \cup kc.params[1],
                                  a.params[1] \cup kc.params[2]>>)}

(***************************************************************************)
(* reconcile with HasArrayKey and HasNonnullEntryForKey: chains of calls   *)
(* on unions of dicts, vecs and other atomics.                             *)
(***************************************************************************)
KeyK == DictKeyString("k")
KeyJ == DictKeyString("j")
KeyOne == DictKeyInt(1)

IntOrNull == {TInt, TNull}
GenericDict == TGenericParam("Td", {TDict({TString}, IntOrNull, FALSE)})

KnownItemDicts ==
    {TDict(kp, vp, FALSE) : kp \in {{TString}, {TInt}, {TArraykey}}, vp \in {IntOrNull, {TInt}}}
    \cup {TShape({TString}, IntOrNull, [k \in {name} |-> Item(pu, t)], TRUE, "") :
            name \in {KeyK, KeyJ}, pu \in BOOLEAN, t \in {{TInt}, IntOrNull, {TNull}}}
    \cup {TShapeNoParams([k \in {name} |-> Item(pu, IntOrNull)], TRUE) :
            name \in {KeyK, KeyJ}, pu \in BOOLEAN}

KnownItemAtoms ==
    KnownItemDicts
    \cup {TVec(IntOrNull, FALSE), TVec({TNothing}, FALSE), TKeyset({TString}), TString, TInt,
          TNamedObject("A"), GenericDict, GenericMixed}

KnownItemUnions ==
    {{a, b} : a, b \in KnownItemAtoms} \cup {{TMixed}}

KnownItemAssertions ==
    {HasArrayKey(k) : k \in {KeyK, KeyOne}}
    \cup {HasNonnullEntryForKey(k) : k \in {KeyK, KeyOne}}

InitKnownItems ==
    /\ CombinerIdle
    /\ XIdle
    /\ existing_var_type \in KnownItemUnions
    /\ possibly_undefined_from_try \in BOOLEAN
    /\ assertion = NoCall
    /\ possibly_undefined = FALSE
    /\ key = FALSE
    /\ pos = FALSE
    /\ inside_loop = FALSE
    /\ outcome = NoOutcome
    /\ issues = 0
    /\ assertions = 0
    /\ rpc = "call"

\* lines 392-404
ReconcileHasArrayKey == \E a \in KnownItemAssertions : a.kind = "HasArrayKey" /\ Call(a)

\* lines 405-417
ReconcileHasNonnullEntryForKey ==
    \E a \in KnownItemAssertions : a.kind = "HasNonnullEntryForKey" /\ Call(a)

NextKnownItems == ReconcileHasArrayKey \/ ReconcileHasNonnullEntryForKey \/ Narrowed

SpecKnownItems == InitKnownItems /\ [][NextKnownItems]_vars

\* the item k can be stated for the dict: it is known already, or the dict has
\* general params and either known items or a key parameter that admits k
AdmitsKey(a, k) ==
    \/ k \in DOMAIN ItemsOf(a)
    \/ /\ HasParams(a)
       /\ \/ DOMAIN ItemsOf(a) # {}
          \/ can_expression_types_be_identical({KeyType(k)}, a.params[1])

\* the type the item k has before the call: its own, or the general value param
ItemTypeBefore(a, k) ==
    IF k \in DOMAIN ItemsOf(a) THEN ItemsOf(a)[k].type ELSE a.params[2]

WithoutNull(t) == IF t \ {TNull} = {} THEN {TNothing} ELSE t \ {TNull}

\* the dict with the same general params, non_empty and other items, and with item k
\* defined with type t
WithKnownItem(a, k, t) ==
    [a EXCEPT !.params =
        <<a.params[1], a.params[2],
          [x \in (DOMAIN ItemsOf(a)) \cup {k} |->
              IF x = k THEN Item(FALSE, t) ELSE ItemsOf(a)[x]]>>]

\* C13: after reconcile(HasArrayKey(k)) the dicts of the result are the dicts of the
\* union that admit k, each with item k defined (possibly_undefined = false) and
\* its type unchanged, taken from the general value param when the item was
\* absent; after reconcile(HasNonnullEntryForKey(k)) the same with Null removed
\* from the item's type; the general params stay as they were.
C13_KnownItem ==
    (Returns /\ assertion.kind \in {"HasArrayKey", "HasNonnullEntryForKey"}) =>
        LET k == assertion.key_name
            narrowed(t) == IF assertion.kind = "HasArrayKey" THEN t ELSE WithoutNull(t)
        IN  {d \in outcome.types : IsDict(d)} =
                {WithKnownItem(a, k, narrowed(ItemTypeBefore(a, k))) :
                    a \in {x \in existing_var_type : IsDict(x) /\ AdmitsKey(x, k)}}

\* dict<string, int|null> with HasNonnullEntryForKey("k")
C13_Witness ==
    /\ Returns
    /\ assertion = HasNonnullEntryForKey(KeyK)
    /\ existing_var_type = {TDict({TString}, IntOrNull, FALSE)}
    /\ outcome.types =
           {TShape({TString}, IntOrNull, [k \in {KeyK} |-> Item(FALSE, {TInt})], FALSE, "")}

(***************************************************************************)
(* SymbolReferences::get_invalid_symbols (symbol_references.rs, lines      *)
(* 279-357).                                                               *)
(***************************************************************************)
MaxSigRefs == 3     \* a signature table of up to MaxSigRefs references

Symbol(n) == <<n, "">>
Member(c, m) == <<c, m>>
IsMember(x) == x[2] # ""

SymbolsAndMembers == {Symbol("f"), Symbol("C"), Member("C", "m")}

References == SymbolsAndMembers \X SymbolsAndMembers

TablesUpTo(n) == {t \in SUBSET References : Cardinality(t) <= n}

\* the body tables: no reference or one
BodyTables == {{}} \cup {{r} : r \in References}

Diffs ==
    {[add_or_delete |-> a, keep_signature |-> k] :
        a \in {<<>>} \cup {q \in SeqsUpTo(SymbolsAndMembers, 2) : Injective(q)},
        k \in {{}} \cup {{x} : x \in SymbolsAndMembers}}

NotInvalidation == <<cvars, rvars, uvars, avars, evars, zvars>>

InitInvalidation ==
    /\ CombinerIdle
    /\ ReconcilerIdle
    /\ UnusedIdle
    /\ AnalysisIdle
    /\ ExpressionIdle
    /\ ZIdle
    /\ symbol_references_to_symbols \in BodyTables
    /\ symbol_references_to_symbols_in_signature \in TablesUpTo(MaxSigRefs)
    /\ codebase_diff \in Diffs
    /\ new_invalid_symbols = codebase_diff.add_or_delete
    /\ seen_symbols = {}
    /\ invalid_symbols = {}
    /\ invalid_symbol_members = {}
    /\ invalid_returned = {}
    /\ partially_invalid_symbols = {}
    /\ ipc = "closure"

\* the keys of a table whose set holds x
Referencing(table, x) == {ref[1] : ref \in {r \in table : r[2] = x}}

\* the work list that forgets who references the symbol
Requeued_Nothing(rest, referencing_members) == rest

\* line 305: the referencing members are pushed in the order the table yields them
Requeued(rest, referencing_members) == rest \o referencing_members

\* the pop that leaves the work list as it is
Popped_Nothing(worklist) == worklist

\* line 291: what new_invalid_symbols.pop() leaves
Popped(worklist) == SubSeq(worklist, 1, Len(worklist) - 1)

\* lines 291-317, one iteration of the while loop
ClosureStep ==
    /\ ipc = "closure"
    /\ new_invalid_symbols # <<>>
    /\ LET new_invalid_symbol == new_invalid_symbols[Len(new_invalid_symbols)]
           rest == Popped(new_invalid_symbols)
           referencing == Referencing(symbol_references_to_symbols_in_signature,
                                      new_invalid_symbol)
       IN  IF new_invalid_symbol \in seen_symbols
           THEN /\ new_invalid_symbols' = rest
                /\ UNCHANGED <<seen_symbols, invalid_symbols, invalid_symbol_members>>
           ELSE /\ seen_symbols' = seen_symbols \cup {new_invalid_symbol}
                /\ \E order \in Orderings(referencing) :
                      new_invalid_symbols' = Requeued(rest, order)
                /\ invalid_symbol_members' =
                      invalid_symbol_members
                      \cup {r \in referencing : IsMember(r)}
                      \cup (IF IsMember(new_invalid_symbol) THEN {new_invalid_symbol} ELSE {})
                /\ invalid_symbols' =
                      invalid_symbols
                      \cup {r \in referencing : ~IsMember(r)}
                      \cup (IF IsMember(new_invalid_symbol) THEN {}
                            ELSE {Symbol(new_invalid_symbol[1])})
    /\ UNCHANGED <<symbol_references_to_symbols, symbol_references_to_symbols_in_signature,
                   codebase_diff, invalid_returned, partially_invalid_symbols, ipc>>
    /\ UNCHANGED NotInvalidation

\* lines 319-339: whoever references an invalid symbol or member in its body
InvalidateBodies ==
    /\ ipc = "closure"
    /\ new_invalid_symbols = <<>>
    /\ LET invalid_symbol_bodies ==
               UNION {Referencing(symbol_references_to_symbols, x) :
                         x \in invalid_symbols \cup invalid_symbol_members}
       IN  invalid_symbols' = invalid_symbols \cup invalid_symbol_bodies
    /\ ipc' = "keep"
    /\ UNCHANGED <<symbol_references_to_symbols, symbol_references_to_symbols_in_signature,
                   codebase_diff, new_invalid_symbols, seen_symbols, invalid_symbol_members,
                   invalid_returned, partially_invalid_symbols>>
    /\ UNCHANGED NotInvalidation

\* lines 341-356
KeepSignatures ==
    /\ ipc = "keep"
    /\ partially_invalid_symbols' = {x[1] : x \in invalid_symbol_members}
    /\ invalid_symbol_members' =
          invalid_symbol_members \cup {k \in codebase_diff.keep_signature : IsMember(k)}
    /\ invalid_symbols' =
          invalid_symbols \cup {k \in codebase_diff.keep_signature : ~IsMember(k)}
          \cup invalid_symbol_members'
    /\ invalid_returned' = invalid_symbols'
    /\ ipc' = "done"
    /\ UNCHANGED <<symbol_references_to_symbols, symbol_references_to_symbols_in_signature,
                   codebase_diff, new_invalid_symbols, seen_symbols>>
    /\ UNCHANGED NotInvalidation

NextInvalidation == ClosureStep \/ InvalidateBodies \/ KeepSignatures

SpecInvalidation == InitInvalidation /\ [][NextInvalidation]_vars

\* x reaches y through a chain of references of the table, of any length from 0
Chains ==
    {q \in SeqsUpTo(SymbolsAndMembers, Cardinality(SymbolsAndMembers)) :
        \A j \in 1..(Len(q) - 1) :
            <<q[j], q[j + 1]>> \in symbol_references_to_symbols_in_signature}

SignatureClosure ==
    {q[1] : q \in {c \in Chains : c[Len(c)] \in Range(codebase_diff.add_or_delete)}}

\* C14: the returned invalid set is the closure of add_or_delete under references in
\* signatures, with whoever references an element of the closure in its body, and
\* with the keep_signature entries of the diff, and nothing else.
C14_InvalidSet ==
    ipc = "done" =>
        invalid_returned =
            SignatureClosure
            \cup UNION {Referencing(symbol_references_to_symbols, x) : x \in SignatureClosure}
            \cup codebase_diff.keep_signature

\* f references C in its signature, C references C::m in its signature, C::m is
\* deleted: all three are invalid
C14_Witness ==
    /\ ipc = "done"
    /\ symbol_references_to_symbols_in_signature =
           {<<Symbol("f"), Symbol("C")>>, <<Symbol("C"), Member("C", "m")>>}
    /\ codebase_diff.add_or_delete = <<Member("C", "m")>>
    /\ invalid_returned = SymbolsAndMembers

(***************************************************************************)
(* find_unused_definitions (unused_symbols.rs, lines 14-273).              *)
(* A location is [file_path, line]: start_line for a name_location,        *)
(* end_line for a def_location.  Config is not part of the sources: it is  *)
(* the set of <<kind, file>> allow_issue_kind_in_file refuses, the set of  *)
(* kinds can_add_issue refuses, and migration_symbols.                     *)
(***************************************************************************)
Location(file_path, line) == [file_path |-> file_path, line |-> line]

FunctionLikeInfo(user_defined, dynamically_callable, generated, file_path, name_line, end_line, suppressed_issues, visibility) ==
    [user_defined |-> user_defined,
     dynamically_callable |-> dynamically_callable,
     generated |-> generated,
     name_location |-> Location(file_path, name_line),
     def_location |-> Location(file_path, end_line),
     suppressed_issues |-> suppressed_issues,
     visibility |-> visibility]

ClassLikeInfo(user_defined, file_path, all_parent_classes, methods, overridden_method_ids) ==
    [user_defined |-> user_defined,
     generated |-> FALSE,
     name_location |-> Location(file_path, 1),
     all_parent_classes |-> all_parent_classes,
     methods |-> methods,
     overridden_method_ids |-> overridden_method_ids]

Issue(kind, description, at) == [kind |-> kind, description |-> description, pos |-> at]

\* str::matches(pattern).count() > 0, for the paths and patterns of the model
Matches(file_path, pattern) ==
    \/ pattern = "gen/" /\ file_path = "gen/b.hack"
    \/ pattern = ".hack"

allow_issue_kind_in_file(cfg, kind, file_path) == <<kind, file_path>> \notin cfg.disallowed_in_file
can_add_issue(cfg, issue) == issue.kind \notin cfg.ignored_issues

\* the referenced symbols and members, were only the bodies looked at
get_referenced_symbols_and_members_BodiesOnly(symbol_references) ==
    {r[2] : r \in symbol_references.symbol_references_to_symbols}

\* symbol_references.rs, lines 254-266
get_referenced_symbols_and_members(symbol_references) ==
    {r[2] : r \in symbol_references.symbol_references_to_symbols}
    \cup {r[2] : r \in symbol_references.symbol_references_to_symbols_in_signature}

\* symbol_references.rs, lines 268-277
get_referenced_overridden_class_members(symbol_references) ==
    {r[2] : r \in symbol_references.symbol_references_to_overridden_members}

\* lines 34-40 and 100-106
IsIgnored(ignored, file_path) ==
    ignored.some /\ \E ignored_path \in ignored.v : Matches(file_path, ignored_path)

\* lines 71-82, 138-149 and 256-265
Emit(tally, cfg, issue, file_path) ==
    IF can_add_issue(cfg, issue)
    THEN [tally EXCEPT
            !.issue_counts =
                Put(@, issue.kind, (IF Has(@, issue.kind) THEN @[issue.kind] ELSE 0) + 1),
            !.emitted_issues =
                Put(@, file_path, Append(IF Has(@, file_path) THEN @[file_path] ELSE <<>>,
                                         issue))]
    ELSE tally

\* lines 54-69 and 123-136
Replace(tally, cfg, name, name_pos) ==
    IF <<"unused_symbol", name>> \in cfg.migration_symbols
    THEN [tally EXCEPT !.replacements = @ \cup {<<name_pos.file_path, name>>}]
    ELSE tally

\* the upstream call nobody makes
has_upstream_method_call_Never(classlike_info, method_name, referenced_class_members) ==
    FALSE

\* lines 275-289
has_upstream_method_call(classlike_info, method_name, referenced_class_members) ==
    /\ Has(classlike_info.overridden_method_ids, method_name)
    /\ \E parent_element \in classlike_info.overridden_method_ids[method_name] :
          <<parent_element, method_name>> \in referenced_class_members

\* lines 291-312
RECURSIVE get_trait_users(_, _, _)
get_trait_users(classlike_name, symbols, all_classlike_descendants) ==
    IF /\ Has(symbols, classlike_name)
       /\ symbols[classlike_name] = "Trait"
       /\ Has(all_classlike_descendants, classlike_name)
    THEN all_classlike_descendants[classlike_name]
         \cup UNION {get_trait_users(d, symbols, all_classlike_descendants) :
                        d \in all_classlike_descendants[classlike_name]}
    ELSE {}

\* lines 162-166: a magic method other than __construct
IsMagic(method_name) == method_name \in {"__toString"}

NotUnused == <<cvars, rvars, ivars, avars, evars, zvars>>

\* lines 27-94, one iteration of the loop over functionlike_infos
CheckFunction ==
    /\ upc = "functions"
    /\ todo_functions # <<>>
    /\ LET function_name == Head(todo_functions)
           functionlike_info == codebase_info.functionlike_infos[function_name]
           name_pos == functionlike_info.name_location
           referenced_symbols_and_members ==
               get_referenced_symbols_and_members(analysis_result.symbol_references)
           issue == Issue("UnusedFunction", Symbol(function_name), name_pos)
       IN  IF /\ functionlike_info.user_defined
              /\ ~functionlike_info.dynamically_callable
              /\ ~functionlike_info.generated
              /\ ~IsIgnored(ignored_paths, name_pos.file_path)
              /\ Symbol(function_name) \notin referenced_symbols_and_members
              /\ "UnusedFunction" \notin functionlike_info.suppressed_issues
              /\ allow_issue_kind_in_file(config, "UnusedFunction", name_pos.file_path)
           THEN analysis_result' =
                    Emit(Replace(analysis_result, config, function_name, name_pos), config, issue,
                         name_pos.file_path)
           ELSE UNCHANGED analysis_result
    /\ todo_functions' = Tail(todo_functions)
    /\ UNCHANGED <<codebase_info, config, ignored_paths, todo_classes, todo_methods,
                   current_class, upc>>
    /\ UNCHANGED NotUnused

\* the first loop is over
FunctionsDone ==
    /\ upc = "functions"
    /\ todo_functions = <<>>
    /\ upc' = "classes"
    /\ UNCHANGED <<codebase_info, config, ignored_paths, analysis_result, todo_functions,
                   todo_classes, todo_methods, current_class>>
    /\ UNCHANGED NotUnused

\* lines 96-160, one iteration of the loop over classlike_infos, up to the inner loop
CheckClass ==
    /\ upc = "classes"
    /\ todo_classes # <<>>
    /\ LET classlike_name == Head(todo_classes)
           classlike_info == codebase_info.classlike_infos[classlike_name]
           name_pos == classlike_info.name_location
           referenced_symbols_and_members ==
               get_referenced_symbols_and_members(analysis_result.symbol_references)
           issue == Issue("UnusedClass", Symbol(classlike_name), name_pos)
           skipped ==
               \/ ~classlike_info.user_defined
               \/ classlike_info.generated
               \/ IsIgnored(ignored_paths, name_pos.file_path)
               \/ ~allow_issue_kind_in_file(config, "UnusedClass", name_pos.file_path)
               \/ \E parent_class \in classlike_info.all_parent_classes :
                     /\ Has(codebase_info.classlike_infos, parent_class)
                     /\ ~codebase_info.classlike_infos[parent_class].user_defined
       IN  /\ todo_classes' = Tail(todo_classes)
           /\ IF skipped
              THEN UNCHANGED <<analysis_result, todo_methods, current_class, upc>>
              ELSE IF Symbol(classlike_name) \notin referenced_symbols_and_members
              THEN /\ analysis_result' =
                         Emit(Replace(analysis_result, config, classlike_name, name_pos), config,
                              issue, name_pos.file_path)
                   /\ UNCHANGED <<todo_methods, current_class, upc>>
              ELSE /\ current_class' = classlike_name
                   /\ todo_methods' \in
                         {SomeOrder(DOMAIN classlike_info.methods),
                          Reverse(SomeOrder(DOMAIN classlike_info.methods))}
                   /\ upc' = "methods"
                   /\ UNCHANGED analysis_result
    /\ UNCHANGED <<codebase_info, config, ignored_paths, todo_functions>>
    /\ UNCHANGED NotUnused

\* whether lines 160-270 report the method
MethodReported(classlike_name, method_name) ==
    LET classlike_info == codebase_info.classlike_infos[classlike_name]
        functionlike_storage == classlike_info.methods[method_name]
        referenced_symbols_and_members ==
            get_referenced_symbols_and_members(analysis_result.symbol_references)
        referenced_overridden_class_members ==
            get_referenced_overridden_class_members(analysis_result.symbol_references)
        pair == <<classlike_name, method_name>>
        kind == IF functionlike_storage.visibility = "Private"
                THEN "UnusedPrivateMethod"
                ELSE "UnusedPublicOrProtectedMethod"
    IN  /\ ~IsMagic(method_name)
        /\ pair \notin referenced_symbols_and_members
        /\ pair \notin referenced_overridden_class_members
        /\ ~has_upstream_method_call(classlike_info, method_name,
                                     referenced_symbols_and_members)
        /\ \A trait_user \in get_trait_users(classlike_name, codebase_info.symbols,
                                             codebase_info.classlike_descendants) :
              Has(codebase_info.classlike_infos, trait_user) =>
                  ~has_upstream_method_call(codebase_info.classlike_infos[trait_user],
                                            method_name, referenced_symbols_and_members)
        /\ "UnusedPrivateMethod" \notin functionlike_storage.suppressed_issues
        /\ ~(/\ method_name = "__construct"
             /\ functionlike_storage.visibility = "Private"
             /\ functionlike_storage.def_location.line
                    - functionlike_storage.name_location.line <= 1)
        /\ allow_issue_kind_in_file(config, kind, classlike_info.name_location.file_path)

\* lines 160-270, one iteration of the loop over the methods
CheckMethod ==
    /\ upc = "methods"
    /\ todo_methods # <<>>
    /\ LET method_name == Head(todo_methods)
           functionlike_storage ==
               codebase_info.classlike_infos[current_class].methods[method_name]
           kind == IF functionlike_storage.visibility = "Private"
                   THEN "UnusedPrivateMethod"
                   ELSE "UnusedPublicOrProtectedMethod"
           issue == Issue(kind, Member(current_class, method_name),
                          functionlike_storage.name_location)
       IN  IF MethodReported(current_class, method_name)
           THEN analysis_result' =
                    Emit(analysis_result, config, issue,
                         codebase_info.classlike_infos[current_class].name_location.file_path)
           ELSE UNCHANGED analysis_result
    /\ todo_methods' = Tail(todo_methods)
    /\ UNCHANGED <<codebase_info, config, ignored_paths, todo_functions, todo_classes,
                   current_class, upc>>
    /\ UNCHANGED NotUnused

\* the inner loop is over
MethodsDone ==
    /\ upc = "methods"
    /\ todo_methods = <<>>
    /\ current_class' = ""
    /\ upc' = "classes"
    /\ UNCHANGED <<codebase_info, config, ignored_paths, analysis_result, todo_functions,
                   todo_classes, todo_methods>>
    /\ UNCHANGED NotUnused

\* find_unused_definitions returns
ClassesDone ==
    /\ upc = "classes"
    /\ todo_classes = <<>>
    /\ upc' = "done"
    /\ UNCHANGED <<codebase_info, config, ignored_paths, analysis_result, todo_functions,
                   todo_classes, todo_methods, current_class>>
    /\ UNCHANGED NotUnused

NextUnused ==
    \/ CheckFunction
    \/ FunctionsDone
    \/ CheckClass
    \/ CheckMethod
    \/ MethodsDone
    \/ ClassesDone

(***************************************************************************)
(* The codebases the search is run on: two functions, or a trait T used by *)
(* a class U that implements I and extends P.                              *)
(***************************************************************************)
Files == {"a.hack", "gen/b.hack"}
IgnoredPaths == {NoneRet, SomeRet({}), SomeRet({"gen/"})}
PlainFunction == FunctionLikeInfo(TRUE, FALSE, FALSE, "a.hack", 1, 3, {}, "Public")
Referencer == Symbol("main")

FunctionCodebases ==
    {[functionlike_infos |->
          [n \in {"f", "g"} |->
              IF n = "g"
              THEN PlainFunction
              ELSE FunctionLikeInfo(ud, dc, gen, file, 5, 7, sup, "Public")],
      classlike_infos |-> <<>>, symbols |-> <<>>, classlike_descendants |-> <<>>] :
        ud \in BOOLEAN, dc \in BOOLEAN, gen \in BOOLEAN, file \in Files,
        sup \in {{}, {"UnusedFunction"}}}

FunctionReferences ==
    {[symbol_references_to_symbols |-> body,
      symbol_references_to_symbols_in_signature |-> sig,
      symbol_references_to_overridden_members |-> {}] :
        body \in SUBSET {<<Symbol("g"), Symbol("f")>>, <<Symbol("f"), Symbol("g")>>},
        sig \in {{}, {<<Symbol("g"), Symbol("f")>>}, {<<Member("C", "m"), Symbol("f")>>}}}

FunctionConfigs ==
    {[disallowed_in_file |-> d, ignored_issues |-> i, migration_symbols |-> m] :
        d \in {{}, {<<"UnusedFunction", "a.hack">>}},
        i \in {{}, {"UnusedFunction"}},
        m \in {{}, {<<"unused_symbol", "f">>}}}

Orders(S) == {SomeOrder(S), Reverse(SomeOrder(S))}

InitUnusedFunctions ==
    /\ codebase_info \in FunctionCodebases
    /\ config \in FunctionConfigs
    /\ ignored_paths \in IgnoredPaths
    /\ analysis_result \in
          {[NoAnalysisResult EXCEPT !.symbol_references = r] : r \in FunctionReferences}
    /\ todo_functions \in Orders(DOMAIN codebase_info.functionlike_infos)
    /\ todo_classes = <<>>

Method(visibility, name_line, end_line, suppressed_issues) ==
    FunctionLikeInfo(TRUE, FALSE, FALSE, "a.hack", name_line, end_line, suppressed_issues, visibility)

ClassCodebases ==
    {[functionlike_infos |-> <<>>,
      classlike_infos |->
          [c \in {"I", "P", "T", "U"} |->
              CASE c = "I" ->
                      ClassLikeInfo(TRUE, "a.hack", {},
                                    [m \in {"m", "n"} |-> Method("Public", 2, 2, {})],
                                    <<>>)
                [] c = "P" -> ClassLikeInfo(pud, "a.hack", {}, <<>>, <<>>)
                [] c = "T" ->
                      ClassLikeInfo(TRUE, tfile, {},
                                    [m \in {"m"} |-> Method("Public", 2, 4, {})],
                                    <<>>)
                [] OTHER ->
                      ClassLikeInfo(TRUE, "a.hack", {"I", "P"},
                                    [m \in {"n", "__construct", "__toString"} |->
                                        CASE m = "n" -> Method("Public", 2, 4, v[1])
                                          [] m = "__construct" -> Method(v[2], 6, 6 + v[3], {})
                                          [] OTHER -> Method("Public", 9, 11, {})],
                                    [m \in {"m", "n"} |->
                                        IF m = "m" THEN {"I"} ELSE {"I", "P"}])],
      symbols |-> [c \in {"I", "P", "T", "U"} |->
                      CASE c = "I" -> "Interface" [] c = "T" -> "Trait" [] OTHER -> "Class"],
      classlike_descendants |-> [c \in {"I", "P", "T"} |-> {"U"}]] :
        pud \in BOOLEAN, tfile \in Files,
        v \in {<<{}, vis, len>> : vis \in {"Private", "Public"}, len \in {0, 1, 2}}
               \cup {<<{"UnusedPrivateMethod"}, "Public", 2>>}}

ClassMembers ==
    {Member("T", "m"), Member("U", "m"), Member("I", "m"), Member("U", "n"),
     Member("I", "n"), Member("P", "n"), Member("U", "__construct"),
     Member("U", "__toString")}

ClassReferences ==
    {[symbol_references_to_symbols |->
          {<<Referencer, x>> : x \in {Symbol("I"), Symbol("P")} \cup classes},
      symbol_references_to_symbols_in_signature |-> {<<Referencer, x>> : x \in members},
      symbol_references_to_overridden_members |-> {<<Referencer, x>> : x \in overridden}] :
        classes \in SUBSET {Symbol("T"), Symbol("U")},
        members \in {{}} \cup {{x} : x \in ClassMembers},
        overridden \in {{}, {Member("T", "m")}, {Member("U", "n")}}}

ClassConfigs ==
    {[disallowed_in_file |-> d, ignored_issues |-> i, migration_symbols |-> {}] :
        d \in {{}, {<<"UnusedPrivateMethod", "a.hack">>}, {<<"UnusedClass", "a.hack">>}},
        i \in {{}}}
    \cup {[disallowed_in_file |-> {}, ignored_issues |-> {"UnusedPublicOrProtectedMethod"},
           migration_symbols |-> {}]}

InitUnusedMethods ==
    /\ codebase_info \in ClassCodebases
    /\ config \in ClassConfigs
    /\ ignored_paths \in {NoneRet, SomeRet({"gen/"})}
    /\ analysis_result \in
          {[NoAnalysisResult EXCEPT !.symbol_references = r] : r \in ClassReferences}
    /\ todo_functions = <<>>
    /\ todo_classes \in Orders(DOMAIN codebase_info.classlike_infos)

InitUnused ==
    /\ CombinerIdle
    /\ ReconcilerIdle
    /\ InvalidationIdle
    /\ AnalysisIdle
    /\ ExpressionIdle
    /\ ZIdle
    /\ InitUnusedFunctions \/ InitUnusedMethods
    /\ todo_methods = <<>>
    /\ current_class = ""
    /\ upc = "functions"

SpecUnused == InitUnused /\ [][NextUnused]_vars

\* the issues of a kind emitted about a symbol or member, in any file
IssuesAbout(kind, description) ==
    {<<file, i>> \in
        UNION {{file} \X DOMAIN analysis_result.emitted_issues[file] :
                  file \in DOMAIN analysis_result.emitted_issues} :
        /\ analysis_result.emitted_issues[file][i].kind = kind
        /\ analysis_result.emitted_issues[file][i].description = description}

CountOf(kind) ==
    IF Has(analysis_result.issue_counts, kind) THEN analysis_result.issue_counts[kind] ELSE 0

\* the function is one the search looks at: lines 28-41
Eligible(function_name) ==
    LET info == codebase_info.functionlike_infos[function_name]
    IN  /\ info.user_defined
        /\ ~info.dynamically_callable
        /\ ~info.generated
        /\ ~IsIgnored(ignored_paths, info.name_location.file_path)

\* some reference, of a body or of a signature, points to the function
IsReferenced(function_name) ==
    \E r \in analysis_result.symbol_references.symbol_references_to_symbols
             \cup analysis_result.symbol_references.symbol_references_to_symbols_in_signature :
        r[2] = Symbol(function_name)

\* the configuration lets UnusedFunction through for the file of the function
Unsuppressed(function_name) ==
    LET info == codebase_info.functionlike_infos[function_name]
    IN  /\ "UnusedFunction" \notin info.suppressed_issues
        /\ <<"UnusedFunction", info.name_location.file_path>> \notin config.disallowed_in_file
        /\ "UnusedFunction" \notin config.ignored_issues

\* C15: once the search is over, an eligible function in a file that is not
\* ignored has an UnusedFunction issue exactly when no reference of a body or
\* of a signature points to it and the issue is not suppressed; there is then
\* exactly one such issue, it is filed under the function's file at its name
\* location, and issue_counts counts one per unused function.
C15_UnusedFunction ==
    (upc = "done" /\ DOMAIN codebase_info.functionlike_infos # {}) =>
        /\ \A f \in DOMAIN codebase_info.functionlike_infos :
              LET info == codebase_info.functionlike_infos[f]
                  about == IssuesAbout("UnusedFunction", Symbol(f))
              IN  IF Eligible(f) /\ ~IsReferenced(f) /\ Unsuppressed(f)
                  THEN /\ Cardinality(about) = 1
                       /\ \A a \in about :
                             /\ a[1] = info.name_location.file_path
                             /\ analysis_result.emitted_issues[a[1]][a[2]].pos
                                    = info.name_location
                  ELSE about = {}
        /\ CountOf("UnusedFunction") =
              Cardinality({f \in DOMAIN codebase_info.functionlike_infos :
                              Eligible(f) /\ ~IsReferenced(f) /\ Unsuppressed(f)})

\* the search is over and reported f, which only a signature could have kept
C15_Witness ==
    /\ upc = "done"
    /\ Has(codebase_info.functionlike_infos, "f")
    /\ Cardinality(IssuesAbout("UnusedFunction", Symbol("f"))) = 1
    /\ CountOf("UnusedFunction") = 1
    /\ IsReferenced("g")

\* what some reference of a body or of a signature points to
ReferencedTargets ==
    {r[2] : r \in analysis_result.symbol_references.symbol_references_to_symbols
                  \cup analysis_result.symbol_references.symbol_references_to_symbols_in_signature}

\* the method has been reported unused, under either kind
Reported(c, m) ==
    \/ IssuesAbout("UnusedPrivateMethod", Member(c, m)) # {}
    \/ IssuesAbout("UnusedPublicOrProtectedMethod", Member(c, m)) # {}

\* the classes whose same-named method the method of c overrides
OverriddenAncestors(c, m) ==
    LET ids == codebase_info.classlike_infos[c].overridden_method_ids
    IN  IF m \in DOMAIN ids THEN ids[m] ELSE {}

\* the classes that use the trait c, none when c is no trait
TraitUsers(c) ==
    get_trait_users(c, codebase_info.symbols, codebase_info.classlike_descendants)
    \cap DOMAIN codebase_info.classlike_infos

MethodsOf(c) == DOMAIN codebase_info.classlike_infos[c].methods

\* C16, as the code has it: a method is reported unused only if its class is
\* user-defined and referenced, the method itself is referenced neither
\* directly nor as an overridden member, no overridden ancestor's same-named
\* method is referenced and, for a trait's method, no overridden ancestor of a
\* trait user has its same-named method referenced; a magic method other than
\* __construct is never reported, nor is a private __construct whose
\* definition ends at most one line after its name.
C16_UnusedMethod ==
    \A c \in DOMAIN codebase_info.classlike_infos : \A m \in MethodsOf(c) :
        Reported(c, m) =>
            LET info == codebase_info.classlike_infos[c]
                method == info.methods[m]
            IN  /\ info.user_defined
                /\ Symbol(c) \in ReferencedTargets
                /\ Member(c, m) \notin ReferencedTargets
                /\ \A r \in analysis_result.symbol_references
                                .symbol_references_to_overridden_members :
                      r[2] # Member(c, m)
                /\ \A p \in OverriddenAncestors(c, m) : Member(p, m) \notin ReferencedTargets
                /\ \A u \in TraitUsers(c) : \A p \in OverriddenAncestors(u, m) :
                      Member(p, m) \notin ReferencedTargets
                /\ m \in {"__construct"} \/ m \notin {"__toString"}
                /\ ~(/\ m = "__construct"
                     /\ method.visibility = "Private"
                     /\ method.def_location.line - method.name_location.line <= 1)

\* the search is over; it reported the method of the trait and a constructor,
\* and kept quiet about the magic method of the referenced class
C16_Witness ==
    /\ upc = "done"
    /\ Has(codebase_info.classlike_infos, "U")
    /\ Reported("T", "m")
    /\ Reported("U", "__construct")
    /\ ~Reported("U", "__toString")
    /\ Symbol("U") \in ReferencedTargets

\* C16, as stated: a trait's method is not reported while a trait user and
\* that user's method of the same name are referenced.
C16_TraitUserReferenced ==
    \A c \in DOMAIN codebase_info.classlike_infos : \A m \in MethodsOf(c) :
        Reported(c, m) =>
            \A u \in TraitUsers(c) :
                Symbol(u) \notin ReferencedTargets \/ Member(u, m) \notin ReferencedTargets

(***************************************************************************)
(* scan_and_analyze, analyze_files and analyze_file                        *)
(* (file_scanner_analyzer/lib.rs, lines 53-176 and 937-1111).  The calling *)
(* thread and the worker threads take one step at a time.  A panic ends    *)
(* the thread it happens in; joining a thread that panicked panics the     *)
(* caller (handle.join().unwrap()).                                        *)
(***************************************************************************)
MaxPaths == 9
MaxThreads == 2

PathNames ==
    <<"a.hack", "gen/b.hack", "c.hack", "d.hack", "e.hack", "f.hack", "g.hack", "h.hack",
      "i.hack", "j.hack", "k.hack">>

\* lines 954-962: what the two retain calls keep
Kept(str_path) ==
    /\ filter.some => Matches(str_path, filter.v)
    /\ paths_ignored.some => \A ignored_path \in paths_ignored.v : ~Matches(str_path, ignored_path)

RECURSIVE Retain(_)
Retain(seq) ==
    IF seq = <<>>
    THEN <<>>
    ELSE (IF Kept(Head(seq)) THEN <<Head(seq)>> ELSE <<>>) \o Retain(Tail(seq))

\* lines 949 and 967-969
GroupSize(kept) == IF Len(kept) \div threads < 4 THEN 1 ELSE threads

\* lines 971-977: the paths at the positions i with i % group_size = group
Group(kept, group_size, group) ==
    [k \in 1..Cardinality({i \in 0..(Len(kept) - 1) : i % group_size = group}) |->
        kept[group + (k - 1) * group_size + 1]]

\* entry(k).or_insert_with(FxHashSet::default).insert(x)
AddReference(table, k, x) == Put(table, k, (IF Has(table, k) THEN table[k] ELSE {}) \cup {x})

\* what analysing a well-formed file records: a reference from the file's
\* code, a reference to a functionlike's return, an issue and a graph node
FileAnalysis(tally, str_path) ==
    [tally EXCEPT
        !.symbol_references.symbol_references_to_symbols =
            AddReference(AddReference(@, Referencer, Symbol(str_path)),
                         Symbol(str_path), Symbol("lib")),
        !.symbol_references.functionlike_references_to_functionlike_returns =
            AddReference(@, Symbol(str_path), Symbol("lib")),
        !.emitted_issues =
            Put(@, str_path, Append(IF Has(@, str_path) THEN @[str_path] ELSE <<>>,
                                    Issue("MixedAnyArgument", Symbol(str_path),
                                          Location(str_path, 1)))),
        !.issue_counts =
            Put(@, "MixedAnyArgument",
                (IF Has(@, "MixedAnyArgument") THEN @["MixedAnyArgument"] ELSE 0) + 1),
        !.taint_flow_graph = @ \cup {str_path}]

\* for (k, v) in other.table { self.table.entry(k).or_insert_with(..).extend(v) }
ExtendTable(mine, theirs) ==
    [k \in DOMAIN mine \cup DOMAIN theirs |->
        (IF k \in DOMAIN mine THEN mine[k] ELSE {})
        \cup (IF k \in DOMAIN theirs THEN theirs[k] ELSE {})]

\* the merge that keeps what it had and takes nothing in
extend_Nothing(self, other) == self

\* SymbolReferences::extend, symbol_references.rs lines 231-252: three of the
\* four tables are merged
extend(self, other) ==
    [self EXCEPT
        !.symbol_references_to_symbols =
            ExtendTable(@, other.symbol_references_to_symbols),
        !.symbol_references_to_symbols_in_signature =
            ExtendTable(@, other.symbol_references_to_symbols_in_signature),
        !.symbol_references_to_overridden_members =
            ExtendTable(@, other.symbol_references_to_overridden_members)]

\* AnalysisResult::extend: issues are appended per file, counts are added,
\* the references are extended and the graphs are put together
AnalysisResult_extend(self, other) ==
    [self EXCEPT
        !.emitted_issues =
            [f \in DOMAIN @ \cup DOMAIN other.emitted_issues |->
                (IF f \in DOMAIN @ THEN @[f] ELSE <<>>)
                \o (IF f \in DOMAIN other.emitted_issues THEN other.emitted_issues[f]
                    ELSE <<>>)],
        !.issue_counts =
            [k \in DOMAIN @ \cup DOMAIN other.issue_counts |->
                (IF k \in DOMAIN @ THEN @[k] ELSE 0)
                + (IF k \in DOMAIN other.issue_counts THEN other.issue_counts[k] ELSE 0)],
        !.symbol_references = extend(@, other.symbol_references),
        !.taint_flow_graph = @ \cup other.taint_flow_graph]

NewThread ==
    [pc |-> "unspawned", i |-> 1, new_analysis_result |-> NewAnalysisResult, merges |-> 0]

NotAnalysis == <<cvars, rvars, ivars, uvars, evars, zvars>>

\* what scan_and_analyze is given and what scan_files finds
Fixed ==
    UNCHANGED <<files_to_analyze, aast, threads, filter, paths_ignored, graph_kind,
                find_unused>>

\* lines 72-82
ScanFiles ==
    /\ main_pc = "scan_files"
    /\ arc_codebase' = "scanned"
    /\ main_pc' = "populate_codebase"
    /\ UNCHANGED <<paths, path_groups, thread, handles, mutex, files_processed,
                   shared_analysis_result, returned, analyzed>>
    /\ Fixed
    /\ UNCHANGED NotAnalysis

\* lines 123-129
PopulateCodebase ==
    /\ main_pc = "populate_codebase"
    /\ arc_codebase' = "populated"
    /\ shared_analysis_result' = NewAnalysisResult
    /\ main_pc' = "analyze_files"
    /\ UNCHANGED <<paths, path_groups, thread, handles, mutex, files_processed, returned,
                   analyzed>>
    /\ Fixed
    /\ UNCHANGED NotAnalysis

\* analyze_files, lines 937-988: retain, group, and pick the branch
Partition ==
    /\ main_pc = "analyze_files"
    /\ LET kept == Retain(files_to_analyze)
           groups == [group \in {i % GroupSize(kept) : i \in 0..(Len(kept) - 1)} |->
                         Group(kept, GroupSize(kept), group)]
       IN  /\ paths' = kept
           /\ path_groups' = groups
           /\ thread' = [group \in DOMAIN groups |-> NewThread]
           /\ analyzed' = [str_path \in Range(kept) |-> 0]
           /\ main_pc' = CASE Cardinality(DOMAIN groups) = 1 -> "single"
                           [] DOMAIN groups = {} -> "join"
                           [] OTHER -> "spawn"
    /\ UNCHANGED <<arc_codebase, handles, mutex, files_processed, shared_analysis_result,
                   returned>>
    /\ Fixed
    /\ UNCHANGED NotAnalysis

\* lines 988-1003 with analyze_file, lines 1074-1111: the one group is
\* analysed by the calling thread
MainAnalyze ==
    /\ main_pc = "single"
    /\ thread[0].i <= Len(path_groups[0])
    /\ LET str_path == path_groups[0][thread[0].i]
       IN  /\ analyzed' = [analyzed EXCEPT ![str_path] = @ + 1]
           /\ CASE aast[str_path] = "Package" ->
                      /\ main_pc' = "panicked"
                      /\ UNCHANGED thread
                [] aast[str_path] = "Err" ->
                      /\ thread' = [thread EXCEPT ![0].i = @ + 1]
                      /\ UNCHANGED main_pc
                [] OTHER ->
                      /\ thread' = [thread EXCEPT
                                      ![0].i = @ + 1,
                                      ![0].new_analysis_result = FileAnalysis(@, str_path)]
                      /\ UNCHANGED main_pc
    /\ UNCHANGED <<arc_codebase, paths, path_groups, handles, mutex, files_processed,
                   shared_analysis_result, returned>>
    /\ Fixed
    /\ UNCHANGED NotAnalysis

\* lines 1005-1006: *a = new_analysis_result, under the lock
MainStore ==
    /\ main_pc = "single"
    /\ thread[0].i > Len(path_groups[0])
    /\ mutex = {}
    /\ shared_analysis_result' = thread[0].new_analysis_result
    /\ thread' = [thread EXCEPT ![0].pc = "finished", ![0].merges = @ + 1]
    /\ main_pc' = "analyzed"
    /\ UNCHANGED <<arc_codebase, paths, path_groups, handles, mutex, files_processed,
                   returned, analyzed>>
    /\ Fixed
    /\ UNCHANGED NotAnalysis

\* lines 1012-1054: one thread is spawned
Spawn ==
    /\ main_pc = "spawn"
    /\ \E group \in DOMAIN path_groups :
          /\ thread[group].pc = "unspawned"
          /\ thread' = [thread EXCEPT ![group].pc = "analyze_file"]
          /\ handles' = Append(handles, group)
          /\ main_pc' = IF \A other \in DOMAIN path_groups \ {group} :
                               thread[other].pc # "unspawned"
                        THEN "join"
                        ELSE "spawn"
    /\ UNCHANGED <<arc_codebase, paths, path_groups, mutex, files_processed,
                   shared_analysis_result, returned, analyzed>>
    /\ Fixed
    /\ UNCHANGED NotAnalysis

\* lines 1032-1041 with analyze_file, lines 1074-1111
WorkerAnalyze(group) ==
    /\ thread[group].pc = "analyze_file"
    /\ LET str_path == path_groups[group][thread[group].i]
       IN  /\ analyzed' = [analyzed EXCEPT ![str_path] = @ + 1]
           /\ thread' =
                 CASE aast[str_path] = "Package" -> [thread EXCEPT ![group].pc = "panicked"]
                   [] aast[str_path] = "Err" -> [thread EXCEPT ![group].pc = "tally"]
                   [] OTHER ->
                         [thread EXCEPT
                             ![group].pc = "tally",
                             ![group].new_analysis_result = FileAnalysis(@, str_path)]
    /\ UNCHANGED <<arc_codebase, paths, path_groups, handles, mutex, files_processed,
                   shared_analysis_result, returned, main_pc>>
    /\ Fixed
    /\ UNCHANGED NotAnalysis

\* lines 1043-1047
WorkerTally(group) ==
    /\ thread[group].pc = "tally"
    /\ files_processed' = files_processed + 1
    /\ thread' = [thread EXCEPT
                    ![group].i = @ + 1,
                    ![group].pc = IF thread[group].i + 1 > Len(path_groups[group])
                                  THEN "lock"
                                  ELSE "analyze_file"]
    /\ UNCHANGED <<arc_codebase, paths, path_groups, handles, mutex,
                   shared_analysis_result, returned, analyzed, main_pc>>
    /\ Fixed
    /\ UNCHANGED NotAnalysis

\* line 1049: analysis_result.lock().unwrap()
WorkerLock(group) ==
    /\ thread[group].pc = "lock"
    /\ mutex = {}
    /\ mutex' = {group}
    /\ thread' = [thread EXCEPT ![group].pc = "extend"]
    /\ UNCHANGED <<arc_codebase, paths, path_groups, handles, files_processed,
                   shared_analysis_result, returned, analyzed, main_pc>>
    /\ Fixed
    /\ UNCHANGED NotAnalysis

\* lines 1050-1051: a.extend(new_analysis_result), and the guard is dropped
WorkerExtend(group) ==
    /\ thread[group].pc = "extend"
    /\ mutex = {group}
    /\ shared_analysis_result' =
          AnalysisResult_extend(shared_analysis_result, thread[group].new_analysis_result)
    /\ mutex' = {}
    /\ thread' = [thread EXCEPT ![group].pc = "finished", ![group].merges = @ + 1]
    /\ UNCHANGED <<arc_codebase, paths, path_groups, handles, files_processed, returned,
                   analyzed, main_pc>>
    /\ Fixed
    /\ UNCHANGED NotAnalysis

\* the join that does not wait for its thread
Join_NoWait ==
    /\ main_pc = "join"
    /\ handles # <<>>
    /\ handles' = Tail(handles)
    /\ UNCHANGED main_pc
    /\ UNCHANGED <<arc_codebase, paths, path_groups, thread, mutex, files_processed,
                   shared_analysis_result, returned, analyzed>>
    /\ Fixed
    /\ UNCHANGED NotAnalysis

\* lines 1056-1058: handle.join().unwrap()
Join ==
    /\ main_pc = "join"
    /\ handles # <<>>
    /\ thread[Head(handles)].pc \in {"finished", "panicked"}
    /\ IF thread[Head(handles)].pc = "panicked"
       THEN main_pc' = "panicked" /\ UNCHANGED handles
       ELSE handles' = Tail(handles) /\ UNCHANGED main_pc
    /\ UNCHANGED <<arc_codebase, paths, path_groups, thread, mutex, files_processed,
                   shared_analysis_result, returned, analyzed>>
    /\ Fixed
    /\ UNCHANGED NotAnalysis

\* lines 1061-1065: analyze_files returns Ok
Joined ==
    /\ main_pc = "join"
    /\ handles = <<>>
    /\ main_pc' = "analyzed"
    /\ UNCHANGED <<arc_codebase, paths, path_groups, thread, handles, mutex,
                   files_processed, shared_analysis_result, returned, analyzed>>
    /\ Fixed
    /\ UNCHANGED NotAnalysis

\* line 150: (*analysis_result.lock().unwrap()).clone()
CloneResult ==
    /\ main_pc = "analyzed"
    /\ mutex = {}
    /\ returned' = shared_analysis_result
    /\ main_pc' = IF find_unused THEN "find_unused" ELSE "drop"
    /\ UNCHANGED <<arc_codebase, paths, path_groups, thread, handles, mutex,
                   files_processed, shared_analysis_result, analyzed>>
    /\ Fixed
    /\ UNCHANGED NotAnalysis

\* lines 152-159: find_unused_definitions may add issues to the copy
FindUnused ==
    /\ main_pc = "find_unused"
    /\ \E unused \in BOOLEAN :
          returned' =
              IF unused
              THEN [returned EXCEPT
                      !.emitted_issues =
                          Put(@, "a.hack",
                              Append(IF Has(@, "a.hack") THEN @["a.hack"] ELSE <<>>,
                                     Issue("UnusedFunction", Symbol("f"),
                                           Location("a.hack", 1))))]
              ELSE returned
    /\ main_pc' = "drop"
    /\ UNCHANGED <<arc_codebase, paths, path_groups, thread, handles, mutex,
                   files_processed, shared_analysis_result, analyzed>>
    /\ Fixed
    /\ UNCHANGED NotAnalysis

\* line 161: the caller's reference to the codebase goes to a thread that
\* drops it; nothing reads the codebase from here on
DropCodebase ==
    /\ main_pc = "drop"
    /\ main_pc' = IF graph_kind = "WholeProgram" THEN "taint" ELSE "returned"
    /\ UNCHANGED <<arc_codebase, paths, path_groups, thread, handles, mutex,
                   files_processed, shared_analysis_result, returned, analyzed>>
    /\ Fixed
    /\ UNCHANGED NotAnalysis

\* lines 163-175: find_tainted_data over the graph of the copy; c.hack, when
\* it is in the graph, holds a tainted sink
FindTaintedData ==
    /\ main_pc = "taint"
    /\ returned' =
          IF "c.hack" \in returned.taint_flow_graph
          THEN [returned EXCEPT
                  !.emitted_issues =
                      Put(@, "c.hack",
                          Append(IF Has(@, "c.hack") THEN @["c.hack"] ELSE <<>>,
                                 Issue("TaintedData", Symbol("c.hack"),
                                       Location("c.hack", 1))))]
          ELSE returned
    /\ main_pc' = "returned"
    /\ UNCHANGED <<arc_codebase, paths, path_groups, thread, handles, mutex,
                   files_processed, shared_analysis_result, analyzed>>
    /\ Fixed
    /\ UNCHANGED NotAnalysis

NextAnalysis ==
    \/ ScanFiles
    \/ PopulateCodebase
    \/ Partition
    \/ MainAnalyze
    \/ MainStore
    \/ Spawn
    \/ \E group \in DOMAIN path_groups : WorkerAnalyze(group)
    \/ \E group \in DOMAIN path_groups : WorkerTally(group)
    \/ \E group \in DOMAIN path_groups : WorkerLock(group)
    \/ \E group \in DOMAIN path_groups : WorkerExtend(group)
    \/ Join
    \/ Joined
    \/ CloneResult
    \/ FindUnused
    \/ DropCodebase
    \/ FindTaintedData

\* the runs: up to MaxPaths files, at most one of which is not well-formed
\* ("Err": it does not parse; "Package": its tree holds a Def::Package, at
\* which def_analyzer::analyze stops with todo!())
InitAnalysis ==
    /\ CombinerIdle
    /\ ReconcilerIdle
    /\ InvalidationIdle
    /\ UnusedIdle
    /\ ExpressionIdle
    /\ ZIdle
    /\ \E n \in 0..MaxPaths : files_to_analyze = SubSeq(PathNames, 1, n)
    /\ aast \in {[str_path \in Range(files_to_analyze) |->
                     IF str_path = bad THEN kind ELSE "Fun"] :
                    bad \in Range(files_to_analyze) \cup {""}, kind \in {"Err", "Package"}}
    /\ threads \in 1..MaxThreads
    /\ filter \in {NoFilter, SomeRet(".hack")}
    /\ paths_ignored \in {NoneRet, SomeRet({"gen/"})}
    /\ graph_kind \in {"FunctionBody", "WholeProgram"}
    /\ find_unused \in BOOLEAN
    /\ arc_codebase = "new"
    /\ paths = <<>>
    /\ path_groups = <<>>
    /\ thread = <<>>
    /\ handles = <<>>
    /\ mutex = {}
    /\ files_processed = 0
    /\ shared_analysis_result = NewAnalysisResult
    /\ returned = NewAnalysisResult
    /\ analyzed = <<>>
    /\ main_pc = "scan_files"

SpecAnalysis == InitAnalysis /\ [][NextAnalysis]_vars

\* the paths whose analysis adds to a result
WellFormedPaths == {str_path \in Range(paths) : aast[str_path] = "Fun"}

\* C17: once analyze_files has returned, each path has been analysed exactly
\* once, each worker has merged its result exactly once, and the shared
\* result holds what every file contributes, which no order of locking
\* changes: the issues and the graph node of each file, and each of its
\* references, those to functionlike returns included.
C17_WorkerMerge ==
    main_pc = "analyzed" =>
        /\ \A str_path \in Range(paths) : analyzed[str_path] = 1
        /\ \A group \in DOMAIN thread : thread[group].merges = 1
        /\ shared_analysis_result.taint_flow_graph = WellFormedPaths
        /\ DOMAIN shared_analysis_result.emitted_issues = WellFormedPaths
        /\ \A str_path \in WellFormedPaths :
              /\ Len(shared_analysis_result.emitted_issues[str_path]) = 1
              /\ LET refs == shared_analysis_result.symbol_references
                 IN  /\ Has(refs.symbol_references_to_symbols, Referencer)
                     /\ Symbol(str_path) \in refs.symbol_references_to_symbols[Referencer]
                     /\ Has(refs.symbol_references_to_symbols, Symbol(str_path))
                     /\ Has(refs.functionlike_references_to_functionlike_returns,
                            Symbol(str_path))

\* what of C17 the merge does achieve: every path analysed once, one merge
\* per worker and under the lock, and the issues, the graph and the three
\* merged tables complete whatever the order of locking
MergedButReturns ==
    /\ \A group \in DOMAIN thread :
          /\ thread[group].pc = "extend" => mutex = {group}
          /\ thread[group].merges = (IF thread[group].pc = "finished" THEN 1 ELSE 0)
    /\ main_pc = "analyzed" =>
          /\ \A str_path \in Range(paths) : analyzed[str_path] = 1
          /\ \A group \in DOMAIN thread : thread[group].merges = 1
          /\ shared_analysis_result.taint_flow_graph = WellFormedPaths
          /\ DOMAIN shared_analysis_result.emitted_issues = WellFormedPaths
          /\ shared_analysis_result.symbol_references.symbol_references_to_symbols =
                [k \in {Referencer : str_path \in WellFormedPaths}
                       \cup {Symbol(str_path) : str_path \in WellFormedPaths} |->
                    IF k = Referencer
                    THEN {Symbol(str_path) : str_path \in WellFormedPaths}
                    ELSE {Symbol("lib")}]

\* file analysis has begun
AnalysisBegun == \E str_path \in DOMAIN analyzed : analyzed[str_path] > 0

\* some thread is at work on its files, or has yet to merge them
AtWork ==
    \/ main_pc \in {"single", "spawn", "join"}
    \/ \E group \in DOMAIN thread : thread[group].pc \notin {"finished", "panicked"}

\* the taint pass has begun
TaintBegun == main_pc = "taint" \/ (main_pc = "returned" /\ graph_kind = "WholeProgram")

BarrierState ==
    /\ AnalysisBegun => arc_codebase = "populated"
    /\ TaintBegun =>
          /\ \A group \in DOMAIN thread :
                /\ thread[group].pc = "finished"
                /\ thread[group].merges = 1
                /\ thread[group].new_analysis_result.taint_flow_graph
                       \subseteq returned.taint_flow_graph
          /\ \A str_path \in Range(paths) : analyzed[str_path] = 1

BarrierStep ==
    /\ analyzed' # analyzed => (arc_codebase = "populated" /\ ~TaintBegun /\ ~TaintBegun')
    /\ (AnalysisBegun \/ AtWork) => arc_codebase' = arc_codebase
    /\ TaintBegun => (thread' = thread /\ shared_analysis_result' = shared_analysis_result)

\* C18: file analysis happens only on a codebase that scan_files and
\* populate_codebase have built, and that codebase never changes once
\* analysis has begun; when the taint pass begins every worker has finished
\* its files and merged its graph, every path has been analysed, and no
\* file is analysed while or after the taint pass runs.
C18_Barrier == [](BarrierState) /\ [][BarrierStep]_vars

\* the taint pass is running over the graphs two workers have merged
C18_Witness ==
    /\ main_pc = "taint"
    /\ Cardinality(DOMAIN thread) = 2
    /\ returned.taint_flow_graph # {}
    /\ arc_codebase = "populated"

\* the run is over
Over == main_pc \in {"returned", "panicked"}

\* C19: when the run is over it has returned, and every file that parses and
\* is well-formed has been analysed and has its results in what is returned,
\* whatever another file came to.
C19_Isolation ==
    Over =>
        /\ main_pc = "returned"
        /\ \A str_path \in WellFormedPaths :
              /\ analyzed[str_path] = 1
              /\ Has(returned.emitted_issues, str_path)

\* what holds of failures: a file that does not parse is passed over and
\* costs no other file its results
ParseFailureIsolated ==
    (Over /\ \A str_path \in Range(paths) : aast[str_path] # "Package") =>
        /\ main_pc = "returned"
        /\ \A str_path \in WellFormedPaths :
              /\ analyzed[str_path] = 1
              /\ Has(returned.emitted_issues, str_path)

(***************************************************************************)
(* expression_analyzer::analyze (analyzer/expression_analyzer.rs, lines    *)
(* 41-646) over the expressions whose arms are decided in that file and in *)
(* static_property_fetch_analyzer.rs; the arms that hand over to binop,    *)
(* call, variable-fetch and the other analysers outside these files are    *)
(* not among the inputs.  A TUnion is [types, parent_nodes]; an expression *)
(* is [kind, pos, args, text, name, digits] with pos = (start_offset,      *)
(* end_offset).  config.hooks is empty.                                    *)
(***************************************************************************)
Union(atomics, parents) == [types |-> atomics, parent_nodes |-> parents]
wrap_atomic(atomic) == Union({atomic}, {})
get_bool == wrap_atomic(TBool)
TEnumClassLabel(class_name, member_name) ==
    Atom("enum_class_label", class_name \o "#" \o member_name, 0, NoFlags, <<>>)

DataFlowNode(label, at) == [label |-> label, pos |-> at]

\* TastInfo::set_expr_type, expr_types.insert
set_expr_type(info, at, union) == [info EXCEPT !.expr_types = Put(@, at, union)]

\* TastInfo::maybe_add_issue
maybe_add_issue(info, kind) == [info EXCEPT !.issues = Append(@, kind)]

\* what analyze hands back, with the TastInfo and the context as it leaves them
Analyzed(ok, info, ctx) == [ok |-> ok, tast_info |-> info, context |-> ctx]

\* i64::from_str_radix and str::parse::<i64>, lines 88-94: the value of the
\* digits in the radix of the prefix, if they are digits of that radix
Radix(text) == CASE text = "0x" -> 16 [] text = "0b" -> 2 [] OTHER -> 10

RECURSIVE FromDigits(_, _)
FromDigits(digits, radix) ==
    IF digits = <<>>
    THEN 0
    ELSE FromDigits(SubSeq(digits, 1, Len(digits) - 1), radix) * radix + digits[Len(digits)]

ParsesAsInt(e) == e.digits # <<>> /\ \A k \in DOMAIN e.digits : e.digits[k] < Radix(e.text)

\* TUnion::all_literals
all_literals(union) ==
    \A atomic \in union.types :
        \/ atomic.tag \in {"literal_int", "literal_string"}
        \/ atomic.tag = "string_with_flags" /\ atomic.flags[3]

\* lines 48-65: the statement offset and the fixme position of the expression
NoteOffset(info, e) ==
    IF info.current_stmt_offset.some
    THEN LET offset == IF info.current_stmt_offset.v[2] # 1
                       THEN <<e.pos[1], 1>>
                       ELSE info.current_stmt_offset.v
         IN  [info EXCEPT
                 !.current_stmt_offset = [some |-> TRUE, v |-> offset],
                 !.expr_fixme_positions = Put(@, e.pos, offset)]
    ELSE info

\* add_decision_dataflow, lines 762-818, with no rhs_expr
add_decision_dataflow(info, lhs_expr, expr_pos, cond_type) ==
    IF info.data_flow_graph.kind = "WholeProgram"
    THEN info
    ELSE LET decision_node == DataFlowNode("is decision", expr_pos)
             known == Has(info.expr_types, lhs_expr.pos)
             decided_by == IF known
                      THEN {<<old_parent_node, decision_node>> :
                               old_parent_node \in info.expr_types[lhs_expr.pos].parent_nodes}
                      ELSE {}
             decided == IF known
                        THEN [cond_type EXCEPT !.parent_nodes = @ \cup {decision_node}]
                        ELSE cond_type
         IN  set_expr_type([info EXCEPT !.data_flow_graph.paths = @ \cup decided_by],
                           expr_pos, decided)

\* the classes and static properties of the codebase: C::$p is an
\* Awaitable<int>, C::$q an int, C::$u has no type, w is a name no class
\* declares, z a name the interner has never seen, D no class at all
PropertyCodebase ==
    [classes |-> {"C"},
     interned |-> {"p", "q", "u", "w"},
     declaring |-> [prop \in {"p", "q", "u"} |-> "C"],
     property_types |->
         [prop \in {"p", "q"} |->
             IF prop = "p"
             THEN wrap_atomic(TGenericObject("HH\\Awaitable", <<{TInt}>>))
             ELSE wrap_atomic(TInt)]]

\* add_unspecialized_property_fetch_dataflow: the type gets the node of the
\* property for a parent
PropertyFetchDataflow(var_id, at, union) ==
    [union EXCEPT !.parent_nodes = @ \cup {DataFlowNode(var_id, at)}]

\* static_property_fetch_analyzer::analyze, lines 22-252, for a class named
\* by an identifier and a property named by a string
static_property_fetch(e, info, ctx) ==
    LET classlike_name == e.text
        prop_name == e.name
        var_id == classlike_name \o "::$" \o prop_name
        referenced == [info EXCEPT !.symbol_references = @ \cup {Symbol(classlike_name)}]
        fetched == [set_expr_type(info, <<e.pos[1], e.pos[1] + 1>>,
                                  wrap_atomic(TNamedObject(classlike_name)))
                       EXCEPT !.expr_effects = Put(@, e.pos, 1)]
        member == [fetched EXCEPT
                      !.symbol_references = @ \cup {Member(classlike_name, prop_name)}]
        withNode(union) ==
            [set_expr_type(member, e.pos, PropertyFetchDataflow(var_id, e.pos, union))
                EXCEPT !.data_flow_graph.nodes = @ \cup {DataFlowNode(var_id, e.pos)}]
    IN  CASE classlike_name \notin PropertyCodebase.classes ->
                Analyzed(FALSE, maybe_add_issue(referenced, "NonExistentClass"), ctx)
          [] prop_name \notin PropertyCodebase.interned ->
                Analyzed(FALSE,
                        maybe_add_issue([fetched EXCEPT
                                            !.symbol_references =
                                                @ \cup {Symbol(classlike_name)}],
                                        "NonExistentProperty"),
                        ctx)
          [] Has(ctx.vars_in_scope, var_id) ->
                Analyzed(TRUE, withNode(ctx.vars_in_scope[var_id]), ctx)
          [] ~Has(PropertyCodebase.declaring, prop_name) ->
                Analyzed(FALSE, maybe_add_issue(member, "NonExistentProperty"), ctx)
          [] Has(PropertyCodebase.property_types, prop_name) ->
                LET inserted_type ==
                        PropertyFetchDataflow(var_id, e.pos,
                                              PropertyCodebase.property_types[prop_name])
                IN  Analyzed(TRUE,
                            withNode(PropertyCodebase.property_types[prop_name]),
                            [ctx EXCEPT !.vars_in_scope = Put(@, var_id, inserted_type)])
          [] OTHER -> Analyzed(TRUE, member, ctx)

\* lines 470-500: the type an await gives, if the awaited type holds an
\* Awaitable of one parameter
Awaited(info, e) ==
    LET inner == e.args[1]
        awaited_stmt_type == IF Has(info.expr_types, inner.pos)
                             THEN info.expr_types[inner.pos]
                             ELSE wrap_atomic(TMixedAny)
        awaitables == {atomic_type \in awaited_stmt_type.types :
                          /\ atomic_type.tag = "named_object"
                          /\ atomic_type.name = "HH\\Awaitable"
                          /\ Len(atomic_type.params) = 1}
        effects == [info EXCEPT !.expr_effects = Put(@, e.pos, 7)]
    IN  IF awaitables = {}
        THEN effects
        ELSE LET atomic_type == CHOOSE a \in awaitables : TRUE
             IN  set_expr_type(effects, e.pos,
                               Union(atomic_type.params[1], awaited_stmt_type.parent_nodes))

RECURSIVE analyze(_, _, _)
RECURSIVE AnalyzeParts(_, _, _, _, _, _)

\* lines 370-421: the loop over the parts of an interpolated string
AnalyzeParts(exprs, offset, info, ctx, literal, parents) ==
    IF offset > Len(exprs)
    THEN [ok |-> TRUE, tast_info |-> info, context |-> ctx, all_literals |-> literal,
          parent_nodes |-> parents]
    ELSE LET inner_expr == exprs[offset]
             part == analyze(inner_expr, info, ctx)
             new_parent_node == DataFlowNode("concat", inner_expr.pos)
             typed == Has(part.tast_info.expr_types, inner_expr.pos)
             expr_part_type == part.tast_info.expr_types[inner_expr.pos]
             graph ==
                 [part.tast_info EXCEPT
                     !.data_flow_graph.nodes = @ \cup {new_parent_node},
                     !.data_flow_graph.paths =
                         @ \cup (IF typed
                                 THEN {<<parent_node, new_parent_node>> :
                                          parent_node \in expr_part_type.parent_nodes}
                                 ELSE {})]
         IN  IF ~part.ok
             THEN [ok |-> FALSE, tast_info |-> part.tast_info, context |-> part.context,
                   all_literals |-> literal, parent_nodes |-> parents]
             ELSE AnalyzeParts(exprs, offset + 1, graph, part.context,
                               literal /\ typed /\ all_literals(expr_part_type),
                               parents \cup {new_parent_node})

\* expression_analyzer::analyze, lines 41-646
analyze(e, info0, ctx) ==
    LET info == NoteOffset(info0, e)
        literal(atomic) == Analyzed(TRUE, set_expr_type(info, e.pos, wrap_atomic(atomic)), ctx)
        inner == analyze(e.args[1], info, ctx)
    IN  CASE e.kind = "Int" ->
                literal(IF ParsesAsInt(e)
                        THEN TLiteralInt(FromDigits(e.digits, Radix(e.text)))
                        ELSE TInt)
          [] e.kind = "String" -> literal(TLiteralString(e.text))
          [] e.kind = "Float" -> literal(TFloat)
          [] e.kind = "Null" -> literal(TNull)
          [] e.kind = "True" -> literal(TTrue)
          [] e.kind = "False" -> literal(TFalse)
          [] e.kind = "Is" ->
                IF ~inner.ok
                THEN Analyzed(FALSE, inner.tast_info, inner.context)
                ELSE Analyzed(TRUE,
                             add_decision_dataflow(inner.tast_info, e.args[1], e.pos, get_bool),
                             inner.context)
          [] e.kind = "Clone" ->
                IF ~inner.ok
                THEN Analyzed(FALSE, inner.tast_info, inner.context)
                ELSE Analyzed(TRUE,
                             IF Has(inner.tast_info.expr_types, e.args[1].pos)
                             THEN set_expr_type(inner.tast_info, e.pos,
                                                inner.tast_info.expr_types[e.args[1].pos])
                             ELSE inner.tast_info,
                             inner.context)
          [] e.kind = "String2" ->
                LET parts == AnalyzeParts(e.args, 1, info, ctx, TRUE, {})
                    string_type ==
                        Union({IF parts.all_literals
                               THEN TStringWithFlags(TRUE, FALSE, TRUE)
                               ELSE TString},
                              parts.parent_nodes)
                IN  IF ~parts.ok
                    THEN Analyzed(FALSE, parts.tast_info, parts.context)
                    ELSE Analyzed(TRUE, set_expr_type(parts.tast_info, e.pos, string_type),
                                 parts.context)
          [] e.kind = "Await" ->
                IF ~inner.ok
                THEN Analyzed(FALSE, inner.tast_info, inner.context)
                ELSE Analyzed(TRUE, Awaited(inner.tast_info, e), inner.context)
          [] e.kind = "Import" -> Analyzed(TRUE, info, ctx)
          [] e.kind = "EnumClassLabel" -> literal(TEnumClassLabel(e.text, e.name))
          [] e.kind = "ClassGet" -> static_property_fetch(e, info, ctx)
          [] OTHER -> Analyzed(FALSE, maybe_add_issue(info, "UnrecognizedExpression"), ctx)

\* the expressions analyze is called on: leaves, and leaves under one or two
\* of is, clone and await, and interpolated strings of two parts
Leaf(kind, start, text, name, digits) ==
    [kind |-> kind, pos |-> <<start, start + 3>>, args |-> <<>>, text |-> text,
     name |-> name, digits |-> digits]

Is(e) == [NoExpr EXCEPT !.kind = "Is", !.pos = <<e.pos[1], e.pos[2] + 1>>, !.args = <<e>>]
Clone(e) == [NoExpr EXCEPT !.kind = "Clone", !.pos = <<e.pos[1] - 1, e.pos[2]>>, !.args = <<e>>]
Await(e) == [NoExpr EXCEPT !.kind = "Await", !.pos = <<e.pos[1] - 2, e.pos[2]>>, !.args = <<e>>]
String2(a, b) ==
    [NoExpr EXCEPT !.kind = "String2", !.pos = <<a.pos[1] - 5, b.pos[2] + 1>>, !.args = <<a, b>>]

Leaves(start) ==
    {Leaf("Int", start, "", "", <<4, 2>>), Leaf("Int", start, "0x", "", <<15, 15>>),
     Leaf("Int", start, "0b", "", <<1, 0, 1>>), Leaf("Int", start, "0b", "", <<2>>),
     Leaf("String", start, "s", "", <<>>), Leaf("Float", start, "", "", <<>>),
     Leaf("Null", start, "", "", <<>>), Leaf("True", start, "", "", <<>>),
     Leaf("False", start, "", "", <<>>), Leaf("Import", start, "", "", <<>>),
     Leaf("EnumClassLabel", start, "E", "A", <<>>), Leaf("This", start, "", "", <<>>),
     Leaf("ClassGet", start, "D", "p", <<>>)}
    \cup {Leaf("ClassGet", start, "C", prop, <<>>) : prop \in {"p", "q", "u", "w", "z"}}

Wrapped(S) == {Is(e) : e \in S} \cup {Clone(e) : e \in S} \cup {Await(e) : e \in S}

Exprs ==
    Leaves(10) \cup Wrapped(Leaves(10)) \cup Wrapped(Wrapped(Leaves(10)))
    \cup {String2(a, b) :
             a \in {Leaf("String", 10, "s", "", <<>>), Leaf("Import", 10, "", "", <<>>),
                    Leaf("This", 10, "", "", <<>>), Leaf("ClassGet", 10, "C", "q", <<>>),
                    Is(Leaf("Null", 10, "", "", <<>>))},
             b \in {Leaf("Int", 30, "", "", <<7>>), Leaf("ClassGet", 30, "C", "q", <<>>),
                    Await(Leaf("ClassGet", 30, "C", "p", <<>>))}}

NotExpression == <<cvars, rvars, ivars, uvars, avars, zvars>>

InitExpression ==
    /\ CombinerIdle
    /\ ReconcilerIdle
    /\ InvalidationIdle
    /\ UnusedIdle
    /\ AnalysisIdle
    /\ ZIdle
    /\ expr \in Exprs
    /\ \E kind \in {"FunctionBody", "WholeProgram"}, known \in BOOLEAN :
          tast_info = [NewTastInfo(kind) EXCEPT
                          !.current_stmt_offset = [some |-> known, v |-> <<0, 0>>]]
    /\ context \in {NewContext,
                    [vars_in_scope |-> [var_id \in {"C::$u"} |-> wrap_atomic(TInt)]]}
    /\ ret = FALSE
    /\ epc = "call"

\* one call of analyze
AnalyzeExpr ==
    /\ epc = "call"
    /\ LET done == analyze(expr, tast_info, context)
       IN  /\ ret' = done.ok
           /\ tast_info' = done.tast_info
           /\ context' = done.context
    /\ epc' = "returned"
    /\ UNCHANGED expr
    /\ UNCHANGED NotExpression

NextExpression == AnalyzeExpr

SpecExpression == InitExpression /\ [][NextExpression]_vars

\* C20: when analyze has returned true, expr_types has an entry under the
\* (start_offset, end_offset) of the expression, in either kind of graph.
C20_TypeRecorded ==
    (epc = "returned" /\ ret) => Has(tast_info.expr_types, expr.pos)

\* what does hold: a literal, an enum class label and an interpolated string
\* have their type recorded when analyze returns true, and so has an is
\* expression when the graph is that of a function body
RecordedWhereDecided ==
    (/\ epc = "returned"
     /\ ret
     /\ \/ expr.kind \in {"Int", "String", "Float", "Null", "True", "False",
                          "EnumClassLabel", "String2"}
        \/ expr.kind = "Is" /\ tast_info.data_flow_graph.kind = "FunctionBody")
        => Has(tast_info.expr_types, expr.pos)

(***************************************************************************)
(* combine on lists of null, void, nothing, the booleans and two scalars.  *)
(***************************************************************************)
MaxNullLen == 3    \* lists without repetition of up to MaxNullLen of NullAtoms

NullAtoms == {TNull, TVoid, TNothing, TTrue, TFalse, TBool, TInt, TString}

NullInputs == {q \in SeqsUpTo(NullAtoms, MaxNullLen) : Injective(q)}

InitNull ==
    /\ types \in NullInputs
    /\ codebase \in BOOLEAN
    /\ overwrite = FALSE
    /\ idx = 1
    /\ combination = NewCombination
    /\ result = NoResult
    /\ pc = "call"
    /\ round = 1
    /\ first_types = types
    /\ first = NoResult
    /\ ReconcilerIdle
    /\ XIdle

SpecNull == InitNull /\ [][Next]_vars

\* C22: a list that contains Null and no atomic of the mixed family combines to
\* a list that contains Null.  Stated as the claim; the code breaks it.
C22_NullKept ==
    (Done /\ TNull \in Inputs2 /\ \A a \in Inputs2 : NonMixed(a)) =>
        TNull \in result.types

\* what does hold: Null is kept unless both True and False have been scraped,
\* and when they have, Bool is returned in the place of Null
NullKeptWithoutBothBooleans ==
    (Done /\ TNull \in Inputs2) =>
        IF {TTrue, TFalse} \subseteq Inputs2 /\ TBool \notin Inputs2
        THEN TBool \in result.types /\ TNull \notin result.types
        ELSE TNull \in result.types

(***************************************************************************)
(* Enum cases in combine.                                                  *)
(***************************************************************************)
TwoCasesOfOneEnum ==
    /\ Len(types) = 2
    /\ types[1].tag = "enum_case"
    /\ types[2].tag = "enum_case"
    /\ types[1].name = types[2].name
    /\ types[1] # types[2]

\* C23: two distinct literal cases of the same enum, combined without the enum
\* itself, are both returned.  Stated as the claim; the code breaks it.
C23_CasesKept ==
    (Done /\ TwoCasesOfOneEnum) => result = Returned(Inputs2)

\* what the code does: exactly one of the two cases is returned, the one the
\* hash set of lines 198-208 yields last
OneCaseSurvives ==
    (Done /\ TwoCasesOfOneEnum) =>
        \E a \in Inputs2 : result = Returned({a})

(***************************************************************************)
(* combine on runs of distinct literal strings, with "" or "0" at any one  *)
(* position of the run.                                                    *)
(***************************************************************************)
MaxStringLits == 23    \* runs of up to MaxStringLits distinct literal strings

LiteralNames ==
    <<"a", "b", "c", "d", "e", "f", "g", "h", "i", "j", "k", "l", "m", "n", "o", "p",
      "q", "r", "s", "t", "u", "v", "w", "x", "y", "z">>

FalsyNames == {"", "0"}

\* n literal strings, the one at position at (if any) being special
StringRun(n, at, special) ==
    [i \in 1..n |-> TLiteralString(IF i = at THEN special ELSE LiteralNames[i])]

StringRuns ==
    {StringRun(n, at, special) :
        n \in 2..MaxStringLits, at \in 0..MaxStringLits, special \in FalsyNames}

InitStrings ==
    /\ types \in StringRuns
    /\ codebase \in BOOLEAN
    /\ overwrite = FALSE
    /\ idx = 1
    /\ combination = NewCombination
    /\ result = NoResult
    /\ pc = "call"
    /\ round = 1
    /\ first_types = types
    /\ first = NoResult
    /\ ReconcilerIdle
    /\ XIdle

SpecStrings == InitStrings /\ [][Next]_vars

OnlyLiteralStrings == \A a \in Inputs2 : a.tag = "literal_string"

Collapsed == \E a \in result.types : a.tag \in {"string", "string_with_flags"}

FlaggedTruthy == \E a \in result.types : a.tag = "string_with_flags" /\ a.flags[1]

\* C30: when more than 20 literal strings have collapsed into a general string,
\* that string is flagged truthy only if no input literal is "" or "0".  Stated
\* as the claim; the code breaks it.
C30_TruthySound ==
    (Done /\ OnlyLiteralStrings /\ Collapsed /\ FlaggedTruthy) =>
        \A a \in Inputs2 : a.name \notin FalsyNames

\* what the code does: the collapse happens at the literal after the 21st, and
\* only a "" or "0" that comes after that literal clears the flag
TruthyUnlessLateFalsy ==
    (Done /\ OnlyLiteralStrings /\ Collapsed) =>
        (FlaggedTruthy <=>
            \A i \in 1..Len(types) : i > LiteralLimit + 2 => types[i].name \notin FalsyNames)

(***************************************************************************)
(* SymbolReferences::extend on its own (symbol_references.rs lines         *)
(* 231-252): self and other are drawn from tables over two referencing     *)
(* symbols, a function and a method, and two referenced ones.              *)
(***************************************************************************)
TableNames ==
    {"symbol_references_to_symbols", "symbol_references_to_symbols_in_signature",
     "symbol_references_to_overridden_members",
     "functionlike_references_to_functionlike_returns"}

ReferenceTables ==
    {EmptyMap,
     [k \in {Symbol("f")} |-> {Symbol("lib")}],
     [k \in {Symbol("f"), Member("C", "m")} |->
         IF k = Symbol("f") THEN {Member("D", "n")} ELSE {Symbol("lib")}]}

SymbolReferencesInputs == [TableNames -> ReferenceTables]

NotExtend == <<cvars, rvars, ivars, uvars, avars, evars, bvars, gvars, kvars>>

InitExtend ==
    /\ CombinerIdle
    /\ ReconcilerIdle
    /\ InvalidationIdle
    /\ UnusedIdle
    /\ AnalysisIdle
    /\ ExpressionIdle
    /\ ArithmeticIdle
    /\ GroupingIdle
    /\ CacheIdle
    /\ self_references \in SymbolReferencesInputs
    /\ other_references \in SymbolReferencesInputs
    /\ before_extend = self_references
    /\ mpc = "call"

\* self.extend(other)
Extend_Call ==
    /\ mpc = "call"
    /\ self_references' = extend(self_references, other_references)
    /\ mpc' = "returned"
    /\ UNCHANGED <<other_references, before_extend>>
    /\ UNCHANGED NotExtend

NextExtend == Extend_Call

SpecExtend == InitExtend /\ [][NextExtend]_vars

\* every reference of table theirs is a reference of table mine
Includes(mine, theirs) ==
    \A k \in DOMAIN theirs : Has(mine, k) /\ theirs[k] \subseteq mine[k]

\* C24: after self.extend(other), each of the four tables of self holds every
\* reference it held before and every reference of the same table of other.
\* Stated as the claim; the code breaks it.
C24_ExtendLosesNothing ==
    mpc = "returned" =>
        \A t \in TableNames :
            /\ Includes(self_references[t], before_extend[t])
            /\ Includes(self_references[t], other_references[t])

\* what does hold: the three tables of references between symbols and members
\* are merged, and the table of references to functionlike returns is left as
\* self had it
ExtendMergesThreeTables ==
    mpc = "returned" =>
        /\ \A t \in TableNames \ {"functionlike_references_to_functionlike_returns"} :
              /\ Includes(self_references[t], before_extend[t])
              /\ Includes(self_references[t], other_references[t])
        /\ self_references.functionlike_references_to_functionlike_returns
              = before_extend.functionlike_references_to_functionlike_returns

(***************************************************************************)
(* Termination of get_invalid_symbols.  The loop of lines 290-317 is       *)
(* sequential code that keeps running, which is weak fairness of its       *)
(* steps.                                                                  *)
(***************************************************************************)
\* the calls whose diff keeps no signature: keep_signature is read after the loop
InitTermination ==
    /\ InitInvalidation
    /\ codebase_diff.keep_signature = {}

SpecInvalidationFair ==
    InitTermination /\ [][NextInvalidation]_vars /\ WF_vars(NextInvalidation)

\* the symbol or member the next iteration pops
NextPopped == new_invalid_symbols[Len(new_invalid_symbols)]

\* an iteration that expands a symbol: it marks it seen
Expands == seen_symbols' # seen_symbols

\* C26: get_invalid_symbols returns, whatever the tables and the diff: an
\* iteration expands only a symbol or member not seen before and marks it seen,
\* only such an iteration pushes onto the work list, no symbol is ever unseen
\* again, and the work list empties and the call reaches its end.
C26_Terminates ==
    /\ [][/\ Expands =>
               /\ new_invalid_symbols # <<>>
               /\ NextPopped \notin seen_symbols
               /\ seen_symbols' = seen_symbols \cup {NextPopped}
          /\ (/\ new_invalid_symbols # <<>>
              /\ Len(new_invalid_symbols') >= Len(new_invalid_symbols)) => Expands
          /\ seen_symbols \subseteq seen_symbols']_ivars
    /\ <>(ipc = "done" /\ new_invalid_symbols = <<>>)

\* a call that has returned on a signature graph with a self-reference and a
\* cycle through a function and a class, the function being in the diff
C26_Witness ==
    /\ ipc = "done"
    /\ new_invalid_symbols = <<>>
    /\ {<<Symbol("f"), Symbol("f")>>, <<Symbol("f"), Symbol("C")>>,
        <<Symbol("C"), Symbol("f")>>} \subseteq symbol_references_to_symbols_in_signature
    /\ Len(codebase_diff.add_or_delete) = 1
    /\ codebase_diff.add_or_delete[1] = Symbol("f")
    /\ {Symbol("f"), Symbol("C")} \subseteq seen_symbols


(***************************************************************************)
(* Generic parameters whose bound is disjoint from the asserted type.      *)
(***************************************************************************)
GenericBounds ==
    {{TInt}, {TString}, {TNull}, {TFloat}, {TNamedObject("A")}, {TInt, TString},
     {TNull, TInt}}

BoundedGenerics == {TGenericParam("T", b) : b \in GenericBounds}

\* reconcile applied to a variable whose type is one bounded generic parameter
InitGenerics ==
    /\ CombinerIdle
    /\ XIdle
    /\ existing_var_type \in {{g} : g \in BoundedGenerics}
    /\ possibly_undefined_from_try \in BOOLEAN
    /\ assertion = NoCall
    /\ possibly_undefined = FALSE
    /\ key = FALSE
    /\ pos = FALSE
    /\ inside_loop = FALSE
    /\ outcome = NoOutcome
    /\ issues = 0
    /\ assertions = 0
    /\ rpc = "call"

SpecGenerics == InitGenerics /\ [][NextReconcile]_vars

\* no atomic of the bound is compatible with the asserted atomic
DisjointBound(bound, asserted) ==
    \A a \in bound : ~is_contained_by(a, asserted) /\ ~is_contained_by(asserted, a)

\* the call just returned was Type(Int), Type(String) or Type(Null) against a
\* union of one generic parameter with a non-mixed bound disjoint from it
DisjointGenericCall ==
    /\ rpc = "returned"
    /\ assertion.kind = "IsType"
    /\ assertion.atomic \in {TInt, TString, TNull}
    /\ existing_var_type \in {{g} : g \in BoundedGenerics}
    /\ \A g \in existing_var_type : DisjointBound(as_type(g), assertion.atomic)

\* C29: Type(Int), Type(String) or Type(Null) reconciled against a union made
\* of one generic parameter whose non-mixed bound has no atomic compatible
\* with the asserted type gives Nothing, not the parameter rebuilt with the
\* bound Nothing.
C29_DisjointBoundIsNothing ==
    DisjointGenericCall => outcome.types = get_nothing

\* what the code returns in that case: the parameter itself, its bound
\* replaced by Nothing, and did_remove_type set
DisjointBoundIsRebuilt ==
    DisjointGenericCall =>
        /\ outcome.some
        /\ outcome.types =
              {replace_template_extends(g, get_nothing) : g \in existing_var_type}
        /\ outcome.did_remove_type


(***************************************************************************)
(* arithmetic_analyzer::analyze.  The i64 of a literal int is scaled to    *)
(* IntBits bits in two's complement, so that every overflow of the code    *)
(* has a counterpart; the build either panics on overflow and on a shift   *)
(* count outside the width (overflow checks on) or wraps and masks the     *)
(* count (overflow checks off).  A zero divisor of % panics in both.       *)
(***************************************************************************)
IntBits == 4

RECURSIVE Pow2(_)
Pow2(n) == IF n = 0 THEN 1 ELSE 2 * Pow2(n - 1)

IntModulus == Pow2(IntBits)
IntMin == -Pow2(IntBits - 1)
IntMax == Pow2(IntBits - 1) - 1
IntValues == IntMin..IntMax

\* the two's complement value of the low IntBits bits of v
Wrap(v) == ((v - IntMin + 4 * IntModulus * IntModulus) % IntModulus) + IntMin

\* the low IntBits bits of v as an unsigned number
Unsigned(v) == (v + IntModulus) % IntModulus

RECURSIVE BitAnd(_, _, _)
BitAnd(x, y, n) ==
    IF n = 0 THEN 0
    ELSE (IF x % 2 = 1 /\ y % 2 = 1 THEN 1 ELSE 0) + 2 * BitAnd(x \div 2, y \div 2, n - 1)

RECURSIVE BitOr(_, _, _)
BitOr(x, y, n) ==
    IF n = 0 THEN 0
    ELSE (IF x % 2 = 1 \/ y % 2 = 1 THEN 1 ELSE 0) + 2 * BitOr(x \div 2, y \div 2, n - 1)

Magnitude(v) == IF v < 0 THEN -v ELSE v

\* the remainder of the truncating division: the sign of the dividend
TruncRem(x, y) ==
    IF x < 0 THEN -(Magnitude(x) % Magnitude(y)) ELSE x % Magnitude(y)

\* the arithmetic shift right: rounds towards minus infinity
ShiftRight(x, s) ==
    IF x >= 0 THEN x \div Pow2(s) ELSE -((Magnitude(x) + Pow2(s) - 1) \div Pow2(s))

Value(v) == [panic |-> FALSE, value |-> v]
Abort == [panic |-> TRUE, value |-> 0]

\* +, - : an overflow panics or wraps
Checked(exact, checks) ==
    IF exact \in IntValues THEN Value(exact)
    ELSE IF checks THEN Abort ELSE Value(Wrap(exact))

\* <<, >> : a count outside 0..IntBits-1 panics or is masked
Shifted(x, count, left, checks) ==
    IF count \notin 0..(IntBits - 1) /\ checks THEN Abort
    ELSE LET s == Unsigned(count) % IntBits
         IN  Value(IF left THEN Wrap(x * Pow2(s)) ELSE ShiftRight(x, s))

\* % : a zero divisor panics, and so does MIN % -1
Remainder(x, y) ==
    IF y = 0 \/ (x = IntMin /\ y = -1) THEN Abort ELSE Value(TruncRem(x, y))

Pushed(atomic) == [panic |-> FALSE, atomic |-> atomic]
Aborted == [panic |-> TRUE, atomic |-> TNothing]

LiteralResult(r) == IF r.panic THEN Aborted ELSE Pushed(TLiteralInt(r.value))

IsLiteralInt(a) == a.tag = "literal_int"
IntLike(a) == a = TInt \/ IsLiteralInt(a)

\* the match of lines 59-99 with Slash treated like the other operators
Contribution_SlashAsInt(op, e1_type_atomic, e2_type_atomic, checks) ==
    IF IntLike(e1_type_atomic) /\ IntLike(e2_type_atomic) THEN Pushed(TInt)
    ELSE Pushed(TFloat)

\* the match of lines 59-99: what one pair of atomics pushes to results
Contribution(op, e1_type_atomic, e2_type_atomic, checks) ==
    IF IsLiteralInt(e1_type_atomic) /\ IsLiteralInt(e2_type_atomic) THEN
        LET e1_value == e1_type_atomic.num
            e2_value == e2_type_atomic.num
        IN  CASE op = "Plus" -> LiteralResult(Checked(e1_value + e2_value, checks))
              [] op = "Minus" -> LiteralResult(Checked(e1_value - e2_value, checks))
              [] op = "Amp" ->
                    Pushed(TLiteralInt(Wrap(BitAnd(Unsigned(e1_value), Unsigned(e2_value),
                                                   IntBits))))
              [] op = "Bar" ->
                    Pushed(TLiteralInt(Wrap(BitOr(Unsigned(e1_value), Unsigned(e2_value),
                                                  IntBits))))
              [] op = "Ltlt" -> LiteralResult(Shifted(e1_value, e2_value, TRUE, checks))
              [] op = "Gtgt" -> LiteralResult(Shifted(e1_value, e2_value, FALSE, checks))
              [] op = "Percent" -> LiteralResult(Remainder(e1_value, e2_value))
              [] op = "Slash" -> Pushed(TNum)
              [] OTHER -> Pushed(TInt)
    ELSE IF IntLike(e1_type_atomic) /\ IntLike(e2_type_atomic) THEN
        (IF op = "Slash" THEN Pushed(TNum) ELSE Pushed(TInt))
    ELSE Pushed(TFloat)

\* lines 44-49 and 51-56: False counts as the literal 0
Coerced(atomic) == IF atomic = TFalse THEN TLiteralInt(0) ELSE atomic

Bops == {"Plus", "Minus", "Star", "Slash", "Percent", "Amp", "Bar", "Xor", "Ltlt", "Gtgt"}

LiteralOperands == {TLiteralInt(v) : v \in IntValues}
OtherOperands == {TInt, TFloat, TFalse, TMixedWithFlags(TRUE, FALSE, FALSE, FALSE)}
MixedOperands == {TInt, TFloat, TFalse, TLiteralInt(1)}

\* the operand unions: every single atomic, and the pairs of a few
OperandTypes ==
    {<<a>> : a \in LiteralOperands \cup OtherOperands}
    \cup {t \in {<<a, b>> : a, b \in MixedOperands} : t[1] # t[2]}

\* ignore_falsable_issues is only read for a union with False
Operands ==
    {[types |-> t, ignore_falsable_issues |-> g] :
        t \in OperandTypes, g \in BOOLEAN} \
    {[types |-> t, ignore_falsable_issues |-> TRUE] :
        t \in {u \in OperandTypes : TFalse \notin Range(u)}}

NotArithmetic == <<cvars, rvars, ivars, uvars, avars, evars, mvars, gvars, kvars>>

\* lines 16-41: both operands have been analysed and results is empty
InitArithmetic ==
    /\ CombinerIdle
    /\ ReconcilerIdle
    /\ InvalidationIdle
    /\ UnusedIdle
    /\ AnalysisIdle
    /\ ExpressionIdle
    /\ ExtendIdle
    /\ GroupingIdle
    /\ CacheIdle
    /\ operator \in Bops
    /\ e1_type \in Operands
    /\ e2_type \in Operands
    /\ e1_idx = 1
    /\ e2_idx = 1
    /\ results = <<>>
    /\ expr_type = NoExprType
    /\ overflow_checks \in BOOLEAN
    /\ bpc = "loop"

InLoop == bpc = "loop" /\ e1_idx <= Len(e1_type.types)
LeftSkipped == e1_type.types[e1_idx] = TFalse /\ e1_type.ignore_falsable_issues
RightSkipped == e2_type.types[e2_idx] = TFalse /\ e2_type.ignore_falsable_issues

\* lines 44-47: continue of the outer loop
SkipLeft ==
    /\ InLoop
    /\ e2_idx = 1
    /\ LeftSkipped
    /\ e1_idx' = e1_idx + 1
    /\ UNCHANGED <<operator, e1_type, e2_type, e2_idx, results, expr_type,
                   overflow_checks, bpc>>
    /\ UNCHANGED NotArithmetic

\* lines 51-54: continue of the inner loop
SkipRight ==
    /\ InLoop
    /\ ~LeftSkipped
    /\ e2_idx <= Len(e2_type.types)
    /\ RightSkipped
    /\ e2_idx' = e2_idx + 1
    /\ UNCHANGED <<operator, e1_type, e2_type, e1_idx, results, expr_type,
                   overflow_checks, bpc>>
    /\ UNCHANGED NotArithmetic

\* lines 58-100: one pair of atomics is pushed, or the arithmetic panics
PushResult ==
    /\ InLoop
    /\ ~LeftSkipped
    /\ e2_idx <= Len(e2_type.types)
    /\ ~RightSkipped
    /\ LET Push(c) ==
               IF c.panic
               THEN /\ bpc' = "panicked"
                    /\ UNCHANGED <<results, e2_idx>>
               ELSE /\ results' = Append(results, c.atomic)
                    /\ e2_idx' = e2_idx + 1
                    /\ UNCHANGED bpc
       IN  Push(Contribution(operator, Coerced(e1_type.types[e1_idx]),
                             Coerced(e2_type.types[e2_idx]), overflow_checks))
    /\ UNCHANGED <<operator, e1_type, e2_type, e1_idx, expr_type, overflow_checks>>
    /\ UNCHANGED NotArithmetic

\* the inner loop is over: the next atomic of the left operand
NextLeft ==
    /\ InLoop
    /\ ~LeftSkipped
    /\ e2_idx > Len(e2_type.types)
    /\ e1_idx' = e1_idx + 1
    /\ e2_idx' = 1
    /\ UNCHANGED <<operator, e1_type, e2_type, results, expr_type, overflow_checks, bpc>>
    /\ UNCHANGED NotArithmetic

\* lines 104-117: the results are combined and recorded by assign_arithmetic_type
AssignType ==
    /\ bpc = "loop"
    /\ e1_idx > Len(e1_type.types)
    /\ \E hash_desc \in BOOLEAN :
          LET Assign(r) ==
                  IF r.panic
                  THEN bpc' = "panicked" /\ UNCHANGED expr_type
                  ELSE /\ expr_type' = [some |-> TRUE, types |-> r.types]
                       /\ bpc' = "returned"
          IN  Assign(IF Len(results) = 1 THEN Returned(Range(results))
                     ELSE Combine(results, FALSE, FALSE, hash_desc))
    /\ UNCHANGED <<operator, e1_type, e2_type, e1_idx, e2_idx, results, overflow_checks>>
    /\ UNCHANGED NotArithmetic

NextArithmetic ==
    \/ SkipLeft
    \/ SkipRight
    \/ PushResult
    \/ NextLeft
    \/ AssignType

SpecArithmetic == InitArithmetic /\ [][NextArithmetic]_vars

\* both atomics of the pair at hand are Int or a literal int, False counted as 0
IntLikePair ==
    /\ IntLike(Coerced(e1_type.types[e1_idx]))
    /\ IntLike(Coerced(e2_type.types[e2_idx]))

PushesOne == Len(results') = Len(results) + 1
LastPushed == results'[Len(results')]

\* C21 as stated: every pair of operand atomics of a division contributes Num,
\* and the type of a division expression is num.
C21_DivisionIsNum ==
    operator = "Slash" =>
        /\ \A k \in 1..Len(results) : results[k] = TNum
        /\ bpc = "returned" => expr_type.types = {TNum}

\* C21: a pair of operand atomics of a division contributes Num when both are
\* Int or literal ints (False counted as the literal 0) and Float otherwise;
\* no division of literals panics, and the type of a division expression is
\* num when every pair is of ints, float when none is.
C21_DivisionWidens ==
    /\ [][(operator = "Slash" /\ PushesOne) =>
             LastPushed = IF IntLikePair THEN TNum ELSE TFloat]_bvars
    /\ [][operator = "Slash" /\ bpc = "loop" /\ bpc' = "panicked" => results = <<>>]_bvars
    /\ []((bpc = "returned" /\ operator = "Slash") =>
             /\ expr_type.types \subseteq {TNum, TFloat}
             /\ (\A k \in 1..Len(results) : results[k] = TNum) => expr_type.types = {TNum}
             /\ (\A k \in 1..Len(results) : results[k] = TFloat) =>
                   expr_type.types = {TFloat})

\* a division of a float by a literal int has returned float, and one of two
\* ints num
C21_Witness ==
    /\ bpc = "returned"
    /\ operator = "Slash"
    /\ e1_type.types = <<TFloat, TInt>>
    /\ e2_type.types = <<TLiteralInt(1)>>
    /\ results = <<TFloat, TNum>>
    /\ expr_type.some


\* C27: arithmetic analysis never aborts: for every operator and every pair of
\* literal operand values (a zero right operand of %, sums and differences that
\* overflow, shift counts outside the width) and for operands whose only
\* atomic is False with ignore_falsable_issues set, it returns and records a
\* result type.
C27_NeverAborts == bpc # "panicked"

\* the pair of literal values at hand
LeftValue == Coerced(e1_type.types[e1_idx]).num
RightValue == Coerced(e2_type.types[e2_idx]).num

\* the panics of the call: the combiner's on an empty results, the remainder's
\* on a zero divisor or on MIN % -1 in every build, and with overflow checks
\* the sum's and the difference's on overflow and the shifts' on their count
PanicsOnlyWhere ==
    bpc = "panicked" =>
        IF e1_idx > Len(e1_type.types) THEN results = <<>>
        ELSE /\ IsLiteralInt(Coerced(e1_type.types[e1_idx]))
             /\ IsLiteralInt(Coerced(e2_type.types[e2_idx]))
             /\ \/ /\ operator = "Percent"
                   /\ RightValue = 0 \/ (LeftValue = IntMin /\ RightValue = -1)
                \/ /\ overflow_checks
                   /\ operator = "Plus"
                   /\ LeftValue + RightValue \notin IntValues
                \/ /\ overflow_checks
                   /\ operator = "Minus"
                   /\ LeftValue - RightValue \notin IntValues
                \/ /\ overflow_checks
                   /\ operator \in {"Ltlt", "Gtgt"}
                   /\ RightValue \notin 0..(IntBits - 1)

\* 1 % 0 has panicked in a build without overflow checks
RemainderByZeroPanicked ==
    /\ bpc = "panicked"
    /\ operator = "Percent"
    /\ ~overflow_checks
    /\ e1_type.types = <<TLiteralInt(1)>>
    /\ e2_type.types = <<TLiteralInt(0)>>

\* a left operand that is only False, with ignore_falsable_issues, has panicked
\* in the combiner
FalseOnlyPanicked ==
    /\ bpc = "panicked"
    /\ e1_type.types = <<TFalse>>
    /\ e1_type.ignore_falsable_issues
    /\ e1_idx = 2
    /\ results = <<>>


(***************************************************************************)
(* The grouping of paths for the worker threads: scan_files, lines         *)
(* 525-539, reached when there is a file to scan (line 510), and           *)
(* analyze_files, lines 949-977.  threads is a u8 parameter of the public  *)
(* scan_and_analyze and scan_files; the paths are numbered.                *)
(***************************************************************************)
MaxGroupThreads == 4
MaxGroupFiles == 17

\* lines 525-531 and 949-969 for a group size that is not zero
GroupSizeFor(files, group_size) == IF Len(files) \div group_size < 4 THEN 1 ELSE group_size

\* lines 533-539 and 971-977: path i goes to the group i % group_size
PathGroups(files, group_size) ==
    [group \in {i % group_size : i \in 0..(Len(files) - 1)} |->
        Group(files, group_size, group)]

NotGrouping == <<cvars, rvars, ivars, uvars, avars, evars, mvars, bvars, kvars>>

InitGrouping ==
    /\ CombinerIdle
    /\ ReconcilerIdle
    /\ InvalidationIdle
    /\ UnusedIdle
    /\ AnalysisIdle
    /\ ExpressionIdle
    /\ ExtendIdle
    /\ ArithmeticIdle
    /\ CacheIdle
    /\ caller \in {"scan_files", "analyze_files"}
    /\ group_threads \in 0..MaxGroupThreads
    /\ \E n \in 0..MaxGroupFiles : to_group = [i \in 1..n |-> i]
    /\ grouped = <<>>
    /\ gpc = "call"

\* the division of line 529 or 967 panics for a zero divisor
GroupPaths ==
    /\ IF group_threads = 0
       THEN gpc' = "panicked" /\ UNCHANGED grouped
       ELSE /\ grouped' = PathGroups(to_group, GroupSizeFor(to_group, group_threads))
            /\ gpc' = "returned"
    /\ UNCHANGED <<caller, group_threads, to_group>>
    /\ UNCHANGED NotGrouping

\* scan_files, lines 510-539: nothing is grouped when there is no file to scan
ScanGroups ==
    /\ gpc = "call"
    /\ caller = "scan_files"
    /\ IF Len(to_group) > 0
       THEN GroupPaths
       ELSE /\ gpc' = "returned"
            /\ UNCHANGED <<caller, group_threads, to_group, grouped>>
            /\ UNCHANGED NotGrouping

\* analyze_files, lines 949-977
AnalyzeGroups ==
    /\ gpc = "call"
    /\ caller = "analyze_files"
    /\ GroupPaths

NextGrouping == ScanGroups \/ AnalyzeGroups

SpecGrouping == InitGrouping /\ [][NextGrouping]_vars

\* the groups a path is in
GroupsOf(str_path) == {group \in DOMAIN grouped : str_path \in Range(grouped[group])}

\* each path is in exactly one group, once
EachPathOnce ==
    /\ \A str_path \in Range(to_group) : Cardinality(GroupsOf(str_path)) = 1
    /\ \A group \in DOMAIN grouped :
          /\ grouped[group] # <<>>
          /\ Range(grouped[group]) \subseteq Range(to_group)
          /\ Cardinality(Range(grouped[group])) = Len(grouped[group])

Grouped == gpc = "returned" /\ (caller = "analyze_files" \/ to_group # <<>>)

\* C28: for every value of threads and every file list the grouping does not
\* crash, puts each path in exactly one group, and uses a single group when
\* there are fewer than 4 files per thread.
C28_GroupingTotal ==
    /\ gpc # "panicked"
    /\ Grouped =>
          /\ EachPathOnce
          /\ Len(to_group) < 4 * group_threads => DOMAIN grouped \subseteq {0}

\* what holds: the grouping panics exactly for threads = 0 (in scan_files
\* only when there is a file to scan), and for any other count it is total
\* with the single-group fallback
GroupingTotalForSomeThreads ==
    /\ gpc = "panicked" => group_threads = 0
    /\ (gpc = "returned" /\ group_threads = 0) => (caller = "scan_files" /\ to_group = <<>>)
    /\ Grouped =>
          /\ EachPathOnce
          /\ Len(to_group) < 4 * group_threads => DOMAIN grouped \subseteq {0}
          /\ Len(to_group) >= 4 * group_threads =>
                DOMAIN grouped = 0..(group_threads - 1)

\* sixteen paths were put in four groups of four
FourGroups ==
    /\ gpc = "returned"
    /\ group_threads = 4
    /\ Len(to_group) = 16
    /\ DOMAIN grouped = 0..3
    /\ grouped[1] = <<2, 6, 10, 14>>


(***************************************************************************)
(* Runs of scan_and_analyze with a cache directory and one build checksum, *)
(* the files of the project added, modified and deleted between the runs.  *)
(* file_cache_provider, scan_file and CodebaseInfo::extend are not among   *)
(* the sources: the diff is by modification time, scanning a file records  *)
(* its definitions in the info tables and under its path in the in-files   *)
(* tables, and extend adds the tables of the other codebase.               *)
(***************************************************************************)
MaxRuns == 4
MaxMtime == 2

ProjectFiles == {"a.hack", "b.hack"}

\* what a file defines, by its modification time: a.hack a function that is
\* renamed by an edit and a class, b.hack a typedef and a constant
DefinedIn(str_path, mtime) ==
    IF str_path = "a.hack"
    THEN [functions |-> {IF mtime = 1 THEN "a_old" ELSE "a_new"}, typedefs |-> {},
          constants |-> {}, classlikes |-> {"A"}]
    ELSE [functions |-> {}, typedefs |-> {"b_t"}, constants |-> {"B_C"},
          classlikes |-> {}]

DefiningFile(name) == IF name \in {"a_old", "a_new", "A"} THEN "a.hack" ELSE "b.hack"

\* scan_file of one path into a codebase
scan_file(str_path, mtime, new_codebase) ==
    LET d == DefinedIn(str_path, mtime)
    IN  [functionlike_infos |-> new_codebase.functionlike_infos \cup d.functions,
         type_definitions |-> new_codebase.type_definitions \cup d.typedefs,
         constant_infos |-> new_codebase.constant_infos \cup d.constants,
         classlike_infos |-> new_codebase.classlike_infos \cup d.classlikes,
         functions_in_files |-> Put(new_codebase.functions_in_files, str_path, d.functions),
         typedefs_in_files |-> Put(new_codebase.typedefs_in_files, str_path, d.typedefs),
         const_files |-> Put(new_codebase.const_files, str_path, d.constants),
         classlikes_in_files |-> Put(new_codebase.classlikes_in_files, str_path,
                                     d.classlikes)]

\* HashMap::extend: the entries of the other map replace those of the same key
ExtendMap(mine, theirs) ==
    [k \in DOMAIN mine \cup DOMAIN theirs |-> IF k \in DOMAIN theirs THEN theirs[k] ELSE mine[k]]

\* CodebaseInfo::extend
extend_codebase(mine, theirs) ==
    [functionlike_infos |-> mine.functionlike_infos \cup theirs.functionlike_infos,
     type_definitions |-> mine.type_definitions \cup theirs.type_definitions,
     constant_infos |-> mine.constant_infos \cup theirs.constant_infos,
     classlike_infos |-> mine.classlike_infos \cup theirs.classlike_infos,
     functions_in_files |-> ExtendMap(mine.functions_in_files, theirs.functions_in_files),
     typedefs_in_files |-> ExtendMap(mine.typedefs_in_files, theirs.typedefs_in_files),
     const_files |-> ExtendMap(mine.const_files, theirs.const_files),
     classlikes_in_files |-> ExtendMap(mine.classlikes_in_files, theirs.classlikes_in_files)]

\* file_cache_provider::get_file_diff: a file found is Unchanged, Modified or
\* Added by its entry in the manifest, and an entry without a file is Deleted
get_file_diff(files_to_scan, file_update_hashes) ==
    [str_path \in DOMAIN files_to_scan \cup DOMAIN file_update_hashes |->
        IF str_path \notin DOMAIN files_to_scan THEN "Deleted"
        ELSE IF str_path \notin DOMAIN file_update_hashes THEN "Added"
        ELSE IF file_update_hashes[str_path] = files_to_scan[str_path] THEN "Unchanged"
        ELSE "Modified"]

\* lines 652-682: the names the in-files table holds for the changed files
ToRemove(in_files, changed_files) ==
    UNION {in_files[k] : k \in DOMAIN in_files \cap changed_files}

\* load_cached_codebase, lines 635-703
load_cached_codebase(cache, use_codebase_cache, starter, statuses) ==
    IF cache.codebase.some /\ use_codebase_cache
    THEN LET d == cache.codebase.v
             changed_files == {k \in DOMAIN statuses : statuses[k] # "Unchanged"}
         IN  [d EXCEPT
                !.functionlike_infos = @ \ ToRemove(d.functions_in_files, changed_files),
                !.type_definitions = @ \ ToRemove(d.typedefs_in_files, changed_files),
                !.constant_infos = @ \ ToRemove(d.const_files, changed_files),
                !.classlike_infos = @ \ ToRemove(d.classlikes_in_files, changed_files)]
    ELSE starter

RECURSIVE ScanAll(_, _, _)
\* lines 541-619: every file to scan is scanned into a new codebase, by the
\* caller or by the worker threads
ScanAll(to_scan, files, new_codebase) ==
    IF to_scan = {} THEN new_codebase
    ELSE LET str_path == CHOOSE p \in to_scan : TRUE
         IN  ScanAll(to_scan \ {str_path}, files,
                     scan_file(str_path, files[str_path], new_codebase))

\* scan_files, lines 411-633: the codebase and the statuses it returns and the
\* cache directory it leaves
scan_files(files, cache) ==
    LET use_codebase_cache == cache.buildinfo
        \* lines 471-475
        kept == IF use_codebase_cache THEN cache ELSE [cache EXCEPT !.codebase = NoFile]
        \* lines 479-489
        file_update_hashes ==
            IF use_codebase_cache /\ cache.manifest.some THEN cache.manifest.v ELSE EmptyMap
        statuses == get_file_diff(files, file_update_hashes)
        loaded == load_cached_codebase(kept, use_codebase_cache, NewCodebaseInfo, statuses)
        \* lines 502-508
        to_scan == {k \in DOMAIN statuses : statuses[k] \in {"Added", "Modified"}}
        scanned == extend_codebase(loaded, ScanAll(to_scan, files, NewCodebaseInfo))
    IN  IF to_scan # {}
        THEN [codebase |-> scanned, file_statuses |-> statuses,
              \* lines 625-629
              cache |-> [kept EXCEPT !.codebase = [some |-> TRUE, v |-> scanned]]]
        ELSE [codebase |-> loaded, file_statuses |-> statuses, cache |-> kept]

NotCache == <<cvars, rvars, ivars, uvars, avars, evars, mvars, bvars, gvars>>

\* the first run finds an empty cache directory
InitCache ==
    /\ CombinerIdle
    /\ ReconcilerIdle
    /\ InvalidationIdle
    /\ UnusedIdle
    /\ AnalysisIdle
    /\ ExpressionIdle
    /\ ExtendIdle
    /\ ArithmeticIdle
    /\ GroupingIdle
    /\ on_disk \in UNION {[S -> 1..MaxMtime] : S \in SUBSET ProjectFiles}
    /\ cache_dir = EmptyCacheDir
    /\ file_statuses = EmptyMap
    /\ returned_codebase = NewCodebaseInfo
    /\ runs = 0
    /\ kpc = "between"

BetweenRuns == kpc \in {"between", "returned"}

Edited ==
    /\ kpc' = "between"
    /\ UNCHANGED <<cache_dir, file_statuses, returned_codebase, runs>>
    /\ UNCHANGED NotCache

\* a file is added between two runs
AddFile ==
    /\ BetweenRuns
    /\ \E str_path \in ProjectFiles \ DOMAIN on_disk, mtime \in 1..MaxMtime :
          on_disk' = Put(on_disk, str_path, mtime)
    /\ Edited

\* a file is modified between two runs
ModifyFile ==
    /\ BetweenRuns
    /\ \E str_path \in DOMAIN on_disk :
          /\ on_disk[str_path] < MaxMtime
          /\ on_disk' = Put(on_disk, str_path, on_disk[str_path] + 1)
    /\ Edited

\* a file is deleted between two runs
DeleteFile ==
    /\ BetweenRuns
    /\ \E str_path \in DOMAIN on_disk : on_disk' = Del(on_disk, str_path)
    /\ Edited

\* scan_and_analyze, lines 72-82: the call of scan_files
ScanFilesRun ==
    /\ BetweenRuns
    /\ runs < MaxRuns
    /\ LET Ran(r) ==
               /\ returned_codebase' = r.codebase
               /\ file_statuses' = r.file_statuses
               /\ cache_dir' = r.cache
       IN  Ran(scan_files(on_disk, cache_dir))
    /\ runs' = runs + 1
    /\ kpc' = "scanned"
    /\ UNCHANGED on_disk
    /\ UNCHANGED NotCache

\* scan_and_analyze, lines 84-113: buildinfo and the manifest are written
WriteManifest ==
    /\ kpc = "scanned"
    /\ cache_dir' =
          [cache_dir EXCEPT
             !.buildinfo = TRUE,
             !.manifest =
                 [some |-> TRUE,
                  v |-> [k \in {p \in DOMAIN file_statuses : file_statuses[p] # "Deleted"} |->
                            on_disk[k]]]]
    /\ kpc' = "returned"
    /\ UNCHANGED <<on_disk, file_statuses, returned_codebase, runs>>
    /\ UNCHANGED NotCache

NextCache ==
    \/ AddFile
    \/ ModifyFile
    \/ DeleteFile
    \/ ScanFilesRun
    \/ WriteManifest

SpecCache == InitCache /\ [][NextCache]_vars

\* the names a codebase holds in its four info tables
Defined(c) ==
    c.functionlike_infos \cup c.type_definitions \cup c.constant_infos \cup c.classlike_infos

\* the names of a codebase whose defining file is not there
Stale(c) == {name \in Defined(c) : DefiningFile(name) \notin DOMAIN on_disk}

RunOver == kpc \in {"scanned", "returned"}

StaleOnlyFromCacheFile ==
    RunOver =>
        /\ \A name \in Defined(returned_codebase) :
              Has(file_statuses, DefiningFile(name)) =>
                  file_statuses[DefiningFile(name)] # "Deleted"
        /\ \A str_path \in DOMAIN on_disk :
              LET d == DefinedIn(str_path, on_disk[str_path])
              IN  d.functions \cup d.typedefs \cup d.constants \cup d.classlikes
                      \subseteq Defined(returned_codebase)
        /\ Stale(returned_codebase) # {} =>
              /\ cache_dir.codebase.some
              /\ Stale(returned_codebase) \subseteq Defined(cache_dir.codebase.v)

\* a run that found only a deletion left the codebase file as it was
DeletionOnlyKeepsCacheFile ==
    /\ kpc = "scanned"
    /\ file_statuses = [k \in {"a.hack"} |-> "Deleted"]
    /\ returned_codebase.functionlike_infos = {}
    /\ cache_dir.codebase.some
    /\ "a_old" \in cache_dir.codebase.v.functionlike_infos

====
